---- MODULE Spec2Model ----
(***************************************************************************)
(* Model of the reconciliation and deduplication engine of endfield-cat:   *)
(*   - the metadata mirror (services/metadata.rs: update_metadata,         *)
(*     reset_metadata/download_metadata),                                  *)
(*   - the gacha pull store (database.rs, hg_api/sync.rs upserter, purge,  *)
(*     sync orchestration),                                                *)
(*   - the paginated crawler (hg_api/sync.rs fetch_char_records_internal,  *)
(*     the same loop as hg_api/gacha.rs hg_fetch_char_records).            *)
(* Each subsystem has its own specification (SpecMirror, SpecDb,           *)
(* SpecCrawl); the variables of the other subsystems stay at their initial *)
(* value.                                                                  *)
(***************************************************************************)
EXTENDS Integers, Sequences, FiniteSets, Bags, TLC

VARIABLES
    served,     \* the manifest document the content host publishes
    disk,       \* the mirror directory: path -> file content (or absent)
    run,        \* the metadata operation in progress / last finished
    gacha_pulls,\* the gacha_pulls table: a bag of rows (no unique constraint)
    accounts,   \* the accounts table: uid -> row (uid is the primary key)
    sync,       \* the sync command in flight, if any
    last,       \* the last call that reached the pull store, and its input
    crawl,      \* the record crawl: its locals, requests and pages received
    tokens,     \* the accounts table again, with its token columns
    job,        \* one sync_gacha_by_token call: what it did and returned
    calc        \* one call of a pure function: its arguments and its result

mirrorVars == <<served, disk, run>>

dbVars == <<gacha_pulls, accounts, sync, last>>

crawlVars == <<crawl>>

tokenVars == <<tokens>>

jobVars == <<job>>

calcVars == <<calc>>

vars == <<served, disk, run, gacha_pulls, accounts, sync, last, crawl,
          tokens, job, calc>>

\* ------------------------------------------------------------------------
\* Bounds
\* ------------------------------------------------------------------------
\* most entries a manifest document carries
MaxEntries == 2
\* most records handed to the upserter in one call
MaxBatch == 2

\* the record cap of a crawl (10000 in the code), scaled down
MaxRecords == 2

\* the most items the modelled server puts in one page
MaxPageLen == 2

\* roles one add_account_by_token call resolves
MaxBindings == 2

\* records one pool crawl of a sync returns
MaxCrawled == 1

\* weapon pools the pool list of a sync names
MaxWeaponPools == 1

\* LIMIT of the sentinel query (1000 in the code, scaled down)
MaxLookback == 2

\* the pulls a remote history grows to
MaxHistory == 3

\* ------------------------------------------------------------------------
\* Mirror: paths and file contents
\* ------------------------------------------------------------------------
\* A path relative to the mirror root is the sequence of its components.
SidecarPath == <<"manifest.json">>
PathA == <<"a.json">>
PathB == <<"img", "b.png">>
\* a file called manifest.json below the root (not the sidecar)
PathNested == <<"img", "manifest.json">>
\* an entry of the manifest that has no "path" string
NoPath == <<>>

\* paths a manifest entry can name
EntryPaths == {PathA, PathB}
\* every regular-file position of the modelled tree
AllPaths == EntryPaths \cup {PathNested, SidecarPath}

\* Path::file_name(): the last component
FileName(p) == p[Len(p)]

NoFile == [kind |-> "absent"]
Bytes(v) == [kind |-> "bytes", v |-> v]
FileBytes == {Bytes(1), Bytes(2)}
\* a response body that is not JSON
Garbage == [kind |-> "garbage"]
\* a file that exists and cannot be opened or read
Unreadable == [kind |-> "unreadable"]

Exists(d, p) == d[p] # NoFile

\* hex digits are one-character strings, a hex string a sequence of them
UpperChar(c) ==
    CASE c = "a" -> "A"
      [] c = "b" -> "B"
      [] OTHER -> c

\* str::to_uppercase
to_uppercase(s) == [i \in DOMAIN s |-> UpperChar(s[i])]

\* checksums a manifest entry can declare: none, the digest of Bytes(1) in
\* lower case, the digest of Bytes(2) in upper case
Checksums == {<<>>, <<"0", "a">>, <<"0", "B">>}

\* compute_sha256: the digest of a file's bytes as upper-case hex ("{:X}"),
\* or the error of the open or of a read. The digest is modelled as
\* injective on the modelled contents.
compute_sha256(c) ==
    IF c = Unreadable THEN [ok |-> FALSE, hash |-> <<>>]
    ELSE [ok |-> TRUE,
          hash |-> IF c.v = 1 THEN <<"0", "A">> ELSE <<"0", "B">>]

\* ------------------------------------------------------------------------
\* Mirror: manifest documents
\* ------------------------------------------------------------------------
\* entries of a manifest: a path (or none) and a checksum ("" when absent)
Entries ==
    [path : EntryPaths, checksum : Checksums]
        \cup {[path |-> NoPath, checksum |-> <<>>]}

\* Entry lists of at most MaxEntries entries, paths unique within a manifest.
EntrySeqs ==
    UNION {
        {es \in [1..n -> Entries] :
            \A i, j \in 1..n :
                (i # j /\ es[i].path = es[j].path) => es[i].path = NoPath}
        : n \in 0..MaxEntries}

Doc(ver, es) == [kind |-> "manifest", package_version |-> ver, entries |-> es]

\* the manifest applied by an earlier release of the bundle
OldDoc == Doc("v1", <<>>)

\* documents the content host can serve now
Manifests == {Doc("v2", es) : es \in EntrySeqs}

HttpError == [kind |-> "http_error"]

\* what the request for manifest.json can return while the host publishes m
ManifestResponses(m) == {m, Garbage, HttpError}

\* what the request for one file can return
FileResponses == FileBytes \cup {HttpError}

\* manifest_paths: the paths of the entries that have one
ManifestPaths(es) == {es[i].path : i \in DOMAIN es} \ {NoPath}

\* ------------------------------------------------------------------------
\* Mirror: the phases of update_metadata
\* ------------------------------------------------------------------------
\* an entry compared case-sensitively against the local digest
NeedsDownload_CaseSensitive(d, e) ==
    IF Exists(d, e.path)
    THEN IF e.checksum = <<>>
         THEN FALSE
         ELSE LET local == compute_sha256(d[e.path]) IN
              IF local.ok THEN local.hash # e.checksum ELSE TRUE
    ELSE TRUE

\* a verification that keeps a file it cannot read
NeedsDownload_UnreadableKept(d, e) ==
    LET expected_checksum == to_uppercase(e.checksum) IN
    IF Exists(d, e.path)
    THEN IF expected_checksum = <<>>
         THEN FALSE
         ELSE LET local == compute_sha256(d[e.path]) IN
              IF local.ok
              THEN to_uppercase(local.hash) # expected_checksum
              ELSE FALSE
    ELSE TRUE

\* needs_download of the Verifying phase
NeedsDownload(d, e) ==
    LET expected_checksum == to_uppercase(e.checksum) IN
    IF Exists(d, e.path)
    THEN IF expected_checksum = <<>>
         THEN FALSE
         ELSE LET local == compute_sha256(d[e.path]) IN
              IF local.ok
              THEN to_uppercase(local.hash) # expected_checksum
              ELSE TRUE
    ELSE TRUE

\* to_download: the paths queued by the Verifying phase, in manifest order
VerifyQueue(d, es) ==
    LET F[i \in 0..Len(es)] ==
            IF i = 0 THEN <<>>
            ELSE IF es[i].path # NoPath /\ NeedsDownload(d, es[i])
                 THEN Append(F[i - 1], es[i].path)
                 ELSE F[i - 1]
    IN F[Len(es)]

\* the files the clean phase removes: regular files, not called
\* manifest.json, whose relative path is not in `allowed`
ExtraFiles(d, allowed) ==
    {p \in AllPaths :
        /\ Exists(d, p)
        /\ FileName(p) # "manifest.json"
        /\ p \notin allowed}

RemoveFiles(d, S) == [p \in AllPaths |-> IF p \in S THEN NoFile ELSE d[p]]

\* count_files: the number of regular files under the mirror root
count_files(d) == Cardinality({p \in AllPaths : Exists(d, p)})

\* a status kept as a running counter of the manifest's files
StatusOf_CountsEntries(d, doc) ==
    [file_count |-> Cardinality(ManifestPaths(doc.entries)) + 1,
     is_empty |-> FALSE,
     has_manifest |-> TRUE,
     current_version |-> doc.package_version]

\* the MetadataStatus returned on success
StatusOf(d, doc) ==
    [file_count |-> count_files(d),
     is_empty |-> count_files(d) = 0,
     has_manifest |-> Exists(d, SidecarPath),
     current_version |-> doc.package_version]

NoStatus == [file_count |-> -1]

\* Option::None / SQL NULL
None == "<none>"

\* the status both commands start from and return when no base URL is given
DefaultStatus ==
    [file_count |-> 0, is_empty |-> TRUE, has_manifest |-> FALSE,
     current_version |-> None]

\* an UpdateProgress event
Progress(phase, current, total, path) ==
    [phase |-> phase, current |-> current, total |-> total, path |-> path]

\* the event emitted before the manifest is requested
EarlyEvent == Progress("Verifying", 0, 1, SidecarPath)

\* the events of the Verifying loop: one for each entry that has a path
VerifyEvents(es) ==
    LET F[i \in 0..Len(es)] ==
            IF i = 0 THEN <<>>
            ELSE IF es[i].path # NoPath
                 THEN Append(F[i - 1],
                             Progress("Verifying", i, Len(es), es[i].path))
                 ELSE F[i - 1]
    IN F[Len(es)]

\* the order in which the directory walk meets the files
WalkOrder == <<PathA, PathNested, PathB, SidecarPath>>

\* the events of the Cleaning loop: one for each file removed
CleanEvents(to_remove) ==
    LET F[i \in 0..Len(WalkOrder)] ==
            IF i = 0 THEN <<>>
            ELSE IF WalkOrder[i] \in to_remove
                 THEN Append(F[i - 1], WalkOrder[i])
                 ELSE F[i - 1]
        files == F[Len(WalkOrder)]
    IN [k \in DOMAIN files |->
            Progress("Cleaning", k, Len(files), files[k])]

\* the record of one call of update_metadata / reset_metadata
IdleRun ==
    [op |-> "none", pc |-> "idle", manifest |-> NoFile, queue |-> <<>>,
     idx |-> 0, requested |-> <<>>, written |-> <<>>, deleted |-> {},
     cleaned |-> FALSE, failed |-> FALSE, pre |-> [p \in AllPaths |-> NoFile],
     after_ok_update |-> FALSE, status |-> NoStatus,
     manifest_asked |-> FALSE, events |-> <<>>,
     dir_before |-> TRUE, dir_removed |-> FALSE, dir_after |-> TRUE]

NewRun(op, d, prev) ==
    [IdleRun EXCEPT !.op = op, !.pre = d,
        !.after_ok_update = (prev.op = "update" /\ prev.pc = "ok")]

\* a return without base URL that reports what the directory holds
UpdateNoBase_Rescans(d, prev, dir) ==
    [disk |-> d,
     run |-> [NewRun("update_no_base", d, prev) EXCEPT
                !.pc = "ok", !.dir_before = dir,
                !.status = [DefaultStatus EXCEPT
                              !.file_count = count_files(d),
                              !.is_empty = count_files(d) = 0,
                              !.has_manifest = Exists(d, SidecarPath)]]]

\* update_metadata with no base URL, or a blank one: the directory is
\* created if it does not exist (dir says that it did), then the default
\* status is returned, before any event or request
UpdateNoBase(d, prev, dir) ==
    [disk |-> d,
     run |-> [NewRun("update_no_base", d, prev) EXCEPT
                !.pc = "ok", !.status = DefaultStatus,
                !.dir_before = dir, !.dir_after = TRUE]]

\* the manifest written to the sidecar as soon as it is parsed
UpdateBegin_SidecarFirst(d, prev, resp) ==
    LET r == [NewRun("update", d, prev) EXCEPT
                !.manifest_asked = TRUE, !.events = <<EarlyEvent>>]
    IN
    IF resp = HttpError \/ resp = Garbage
    THEN [disk |-> d, run |-> [r EXCEPT !.pc = "err"]]
    ELSE [disk |-> [d EXCEPT ![SidecarPath] = resp],
          run |-> [r EXCEPT !.pc = "downloading", !.manifest = resp,
                            !.queue = VerifyQueue(d, resp.entries),
                            !.events = @ \o VerifyEvents(resp.entries)]]

\* an update that reports nothing before it has the manifest
UpdateBegin_NoEarlyEvent(d, prev, resp) ==
    LET r == [NewRun("update", d, prev) EXCEPT !.manifest_asked = TRUE]
    IN
    IF resp = HttpError \/ resp = Garbage
    THEN [disk |-> d, run |-> [r EXCEPT !.pc = "err"]]
    ELSE [disk |-> d,
          run |-> [r EXCEPT !.pc = "downloading", !.manifest = resp,
                            !.queue = VerifyQueue(d, resp.entries),
                            !.events = VerifyEvents(resp.entries)]]

\* update_metadata up to the end of the Verifying phase: the early event,
\* fetch and parse the manifest, then verify the entries and queue those to
\* download
UpdateBegin(d, prev, resp) ==
    LET r == [NewRun("update", d, prev) EXCEPT
                !.manifest_asked = TRUE, !.events = <<EarlyEvent>>]
    IN
    IF resp = HttpError \/ resp = Garbage
    THEN [disk |-> d, run |-> [r EXCEPT !.pc = "err"]]
    ELSE [disk |-> d,
          run |-> [r EXCEPT !.pc = "downloading", !.manifest = resp,
                            !.queue = VerifyQueue(d, resp.entries),
                            !.events = @ \o VerifyEvents(resp.entries)]]

\* a failed download that is skipped instead of aborting the call
UpdateDownloadStep_SkipFailed(d, r, resp) ==
    LET path == r.queue[r.idx + 1]
        r1 == [r EXCEPT !.requested = Append(@, path), !.idx = @ + 1,
                        !.events = Append(@, Progress("Downloading",
                                        r.idx + 1, Len(r.queue), path))]
    IN IF resp = HttpError
       THEN [disk |-> d, run |-> [r1 EXCEPT !.failed = TRUE]]
       ELSE [disk |-> [d EXCEPT ![path] = resp],
             run |-> [r1 EXCEPT
                        !.written = Append(@, [path |-> path, bytes |-> resp])]]

\* a download loop that verifies each file just before it requests it
UpdateDownloadStep_VerifiesAsItGoes(d, r, resp) ==
    LET path == r.queue[r.idx + 1]
        r1 == [r EXCEPT !.requested = Append(@, path),
                        !.events = @ \o
                            <<Progress("Verifying",
                                       r.idx + 1, Len(r.queue), path),
                              Progress("Downloading",
                                       r.idx + 1, Len(r.queue), path)>>]
    IN IF resp = HttpError
       THEN [disk |-> d, run |-> [r1 EXCEPT !.pc = "err", !.failed = TRUE]]
       ELSE [disk |-> [d EXCEPT ![path] = resp],
             run |-> [r1 EXCEPT
                        !.idx = @ + 1,
                        !.written = Append(@, [path |-> path, bytes |-> resp])]]

\* one iteration of the Downloading loop: report it, request the next
\* queued file, return the error of a non-success response, else write the
\* bytes
UpdateDownloadStep(d, r, resp) ==
    LET path == r.queue[r.idx + 1]
        r1 == [r EXCEPT !.requested = Append(@, path),
                        !.events = Append(@, Progress("Downloading",
                                        r.idx + 1, Len(r.queue), path))]
    IN IF resp = HttpError
       THEN [disk |-> d, run |-> [r1 EXCEPT !.pc = "err", !.failed = TRUE]]
       ELSE [disk |-> [d EXCEPT ![path] = resp],
             run |-> [r1 EXCEPT
                        !.idx = @ + 1,
                        !.written = Append(@, [path |-> path, bytes |-> resp])]]

\* a Cleaning phase that, like that of the reset, removes nothing when the
\* manifest names no path
UpdateFinishStep_CleansOnlyWithPaths(d, r) ==
    LET allowed == ManifestPaths(r.manifest.entries)
        to_remove == IF allowed # {} THEN ExtraFiles(d, allowed) ELSE {}
        d1 == RemoveFiles(d, to_remove)
        d2 == [d1 EXCEPT ![SidecarPath] = r.manifest]
    IN [disk |-> d2,
        run |-> [r EXCEPT !.pc = "ok", !.deleted = to_remove,
                          !.cleaned = TRUE,
                          !.events = @ \o CleanEvents(to_remove),
                          !.status = StatusOf(d2, r.manifest)]]

\* an end of the call that leaves the files of the directory alone
UpdateFinishStep_KeepsExtras(d, r) ==
    LET d2 == [d EXCEPT ![SidecarPath] = r.manifest]
    IN [disk |-> d2,
        run |-> [r EXCEPT !.pc = "ok", !.cleaned = TRUE,
                          !.status = StatusOf(d2, r.manifest)]]

\* the Cleaning phase, the sidecar write and the final status
UpdateFinishStep(d, r) ==
    LET to_remove == ExtraFiles(d, ManifestPaths(r.manifest.entries))
        d1 == RemoveFiles(d, to_remove)
        d2 == [d1 EXCEPT ![SidecarPath] = r.manifest]
    IN [disk |-> d2,
        run |-> [r EXCEPT !.pc = "ok", !.deleted = to_remove,
                          !.cleaned = TRUE,
                          !.events = @ \o CleanEvents(to_remove),
                          !.status = StatusOf(d2, r.manifest)]]

\* ------------------------------------------------------------------------
\* Mirror: reset_metadata = download_metadata(clean_first = true)
\* ------------------------------------------------------------------------
\* fs::remove_dir_all followed by create_dir_all
EmptyDir == [p \in AllPaths |-> NoFile]

\* the paths requested by the download loop, in manifest order
EntryPathSeq(es) ==
    LET F[i \in 0..Len(es)] ==
            IF i = 0 THEN <<>>
            ELSE IF es[i].path # NoPath
                 THEN Append(F[i - 1], es[i].path)
                 ELSE F[i - 1]
    IN F[Len(es)]

\* a reset that looks at the base URL before it touches the directory
ResetNoBase_ChecksBaseFirst(d, prev, dir) ==
    [disk |-> d,
     run |-> [NewRun("reset_no_base", d, prev) EXCEPT
                !.pc = "ok", !.status = DefaultStatus,
                !.dir_before = dir, !.dir_after = dir]]

\* reset_metadata with no base URL, or a blank one: the directory, if it
\* exists, is removed with all it holds and is created again before the
\* base URL is looked at
ResetNoBase(d, prev, dir) ==
    [disk |-> EmptyDir,
     run |-> [NewRun("reset_no_base", d, prev) EXCEPT
                !.pc = "ok", !.status = DefaultStatus,
                !.dir_before = dir, !.dir_removed = dir,
                !.dir_after = TRUE]]

\* a reset that keeps what the directory holds
ResetBegin_NoWipe(d, prev, resp) ==
    LET r == [NewRun("reset", d, prev) EXCEPT !.manifest_asked = TRUE] IN
    IF resp = HttpError
    THEN [disk |-> d, run |-> [r EXCEPT !.pc = "err"]]
    ELSE LET d1 == [d EXCEPT ![SidecarPath] = resp] IN
         IF resp = Garbage
         THEN [disk |-> d1, run |-> [r EXCEPT !.pc = "err"]]
         ELSE [disk |-> d1,
               run |-> [r EXCEPT !.pc = "downloading", !.manifest = resp,
                                 !.queue = EntryPathSeq(resp.entries)]]

\* download_metadata up to the parse of the manifest: wipe the directory,
\* fetch the manifest, write the sidecar, parse
ResetBegin(d, prev, resp) ==
    LET r == [NewRun("reset", d, prev) EXCEPT !.manifest_asked = TRUE] IN
    IF resp = HttpError
    THEN [disk |-> EmptyDir, run |-> [r EXCEPT !.pc = "err"]]
    ELSE LET d1 == [EmptyDir EXCEPT ![SidecarPath] = resp] IN
         IF resp = Garbage
         THEN [disk |-> d1, run |-> [r EXCEPT !.pc = "err"]]
         ELSE [disk |-> d1,
               run |-> [r EXCEPT !.pc = "downloading", !.manifest = resp,
                                 !.queue = EntryPathSeq(resp.entries)]]

\* one iteration of the download loop of download_metadata
ResetDownloadStep(d, r, resp) ==
    LET path == r.queue[r.idx + 1]
        r1 == [r EXCEPT !.requested = Append(@, path)]
    IN IF resp = HttpError
       THEN [disk |-> d, run |-> [r1 EXCEPT !.pc = "err", !.failed = TRUE]]
       ELSE [disk |-> [d EXCEPT ![path] = resp],
             run |-> [r1 EXCEPT
                        !.idx = @ + 1,
                        !.written = Append(@, [path |-> path, bytes |-> resp])]]

\* cleanup_extra_files (only when the manifest named a path) and the status
ResetFinishStep(d, r) ==
    LET allowed == ManifestPaths(r.manifest.entries)
        to_remove == IF allowed # {} THEN ExtraFiles(d, allowed) ELSE {}
        d1 == RemoveFiles(d, to_remove)
    IN [disk |-> d1,
        run |-> [r EXCEPT !.pc = "ok", !.deleted = to_remove,
                          !.cleaned = (allowed # {}),
                          !.status = StatusOf(d1, r.manifest)]]

\* ------------------------------------------------------------------------
\* build_manifest_url
\* ------------------------------------------------------------------------
\* A string is a sequence of tokens. "R" is the repository marker
\* endfield-cat-metadata, "x" any text without slash, "@", brace or space,
\* "@v" the two characters the function inserts; the other tokens stand for
\* themselves.
MaxUrlLen == 4
UrlTokens == {"x", "/", "R", "@", "{version}", "manifest.json", " "}
Urls == UNION {[1..n -> UrlTokens] : n \in 0..MaxUrlLen}
Versions == {<<>>, <<" ">>, <<"2">>, <<" ", "2", " ">>}

\* no call made
IdleCalc == [fn |-> "none", done |-> TRUE]
CalcAtRest == calc = IdleCalc

\* str::trim
Trim(s) ==
    LET keep == {i \in DOMAIN s : s[i] # " "} IN
    IF keep = {} THEN <<>>
    ELSE SubSeq(s, CHOOSE i \in keep : \A k \in keep : i <= k,
                   CHOOSE i \in keep : \A k \in keep : i >= k)

\* str::find from position from (1-based); 0 when there is none
Find(s, tok, from) ==
    LET at == {i \in from..Len(s) : s[i] = tok} IN
    IF at = {} THEN 0 ELSE CHOOSE i \in at : \A k \in at : i <= k

\* str::rfind; 0 when there is none
RFind(s, tok) ==
    LET at == {i \in DOMAIN s : s[i] = tok} IN
    IF at = {} THEN 0 ELSE CHOOSE i \in at : \A k \in at : i >= k

\* str::ends_with
EndsWith(s, tok) == s # <<>> /\ s[Len(s)] = tok

\* str::replace: every occurrence
Replace(s, tok, by) ==
    LET F[i \in 0..Len(s)] ==
            IF i = 0 THEN <<>>
            ELSE IF s[i] = tok THEN F[i - 1] \o by
                 ELSE Append(F[i - 1], s[i])
    IN F[Len(s)]

Prefix(s, n) == SubSeq(s, 1, n)
Suffix(s, n) == SubSeq(s, n, Len(s))

\* the base with a trailing manifest.json removed
StripManifest(url) ==
    IF EndsWith(url, "manifest.json") /\ RFind(url, "/") # 0
    THEN Prefix(url, RFind(url, "/"))
    ELSE url

\* the version asked for: trimmed, "latest" when empty
EffectiveVersion(version) ==
    IF Trim(version) = <<>> THEN <<"latest">> ELSE Trim(version)

\* the final step: a trailing slash, then manifest.json
WithManifest(url) ==
    (IF EndsWith(url, "/") THEN url ELSE Append(url, "/"))
        \o <<"manifest.json">>

\* the marker branch: the version segment goes after the first marker,
\* replacing what stands between the marker and the next slash
InsertVersion(url, ver) ==
    LET pos == Find(url, "R", 1) IN
    IF pos = 0 THEN url
    ELSE LET start == pos + 1 IN
         IF start <= Len(url) /\ url[start] = "@"
         THEN LET abs == Find(url, "/", start + 1) IN
              IF abs # 0
              THEN Prefix(url, pos) \o <<"@v">> \o ver \o Suffix(url, abs)
              ELSE Prefix(url, pos) \o <<"@v">> \o ver
         ELSE LET abs == Find(url, "/", start) IN
              IF abs # 0
              THEN Prefix(url, pos) \o <<"@v">> \o ver \o Suffix(url, abs)
              ELSE url \o <<"@v">> \o ver

UrlError == [ok |-> FALSE, url |-> <<>>]

build_manifest_url(base_url, version) ==
    IF Trim(base_url) = <<>> THEN UrlError
    ELSE LET url == StripManifest(Trim(base_url))
             ver == EffectiveVersion(version)
         IN [ok |-> TRUE,
             url |-> WithManifest(
                        IF Find(url, "{version}", 1) # 0
                        THEN Replace(url, "{version}", ver)
                        ELSE InsertVersion(url, ver))]

\* ------------------------------------------------------------------------
\* Numeric fields of a response: json_i64 and the rarity / gachaTs of an item
\* ------------------------------------------------------------------------
\* i64 and u64 are modelled IntBits wide
IntBits == 4
I64Min == -(2 ^ (IntBits - 1))
I64Max == 2 ^ (IntBits - 1) - 1
U64Max == 2 ^ IntBits - 1

MaxStrLen == 3
Digits == <<"0", "1", "2", "3", "4", "5", "6", "7", "8", "9">>
Chars == {Digits[i] : i \in DOMAIN Digits} \cup {" ", "-", "+"}
Strs == UNION {[1..n -> Chars] : n \in 0..MaxStrLen}

\* serde_json::Value under a key: a number (an integer or a float), a
\* string, anything else, or no such key
JInt(n) == [kind |-> "int", n |-> n, s |-> <<>>]
JStr(str) == [kind |-> "str", n |-> 0, s |-> str]
JFloat == [kind |-> "float", n |-> 0, s |-> <<>>]
JOther == [kind |-> "other", n |-> 0, s |-> <<>>]
Missing == [kind |-> "missing", n |-> 0, s |-> <<>>]
JsonValues ==
    {JInt(n) : n \in I64Min..U64Max} \cup {JStr(str) : str \in Strs}
        \cup {JFloat, JOther, Missing}

\* Option<i64>
Some(n) == [some |-> TRUE, v |-> n]
NoValue == [some |-> FALSE, v |-> 0]

\* Value::as_i64, Value::as_u64
as_i64(v) ==
    IF v.kind = "int" /\ v.n <= I64Max THEN Some(v.n) ELSE NoValue
as_u64(v) ==
    IF v.kind = "int" /\ v.n >= 0 THEN Some(v.n) ELSE NoValue

\* i64::try_from(u64).ok()
try_from(n) == IF n <= I64Max THEN Some(n) ELSE NoValue

DigitOf(c) == CHOOSE i \in DOMAIN Digits : Digits[i] = c
IsDigit(c) == \E i \in DOMAIN Digits : Digits[i] = c

\* the number a run of digits spells
DigitsValue(ds) ==
    LET F[i \in 0..Len(ds)] ==
            IF i = 0 THEN 0 ELSE 10 * F[i - 1] + (DigitOf(ds[i]) - 1)
    IN F[Len(ds)]

\* str::parse::<T>(): an optional sign ('-' only for a signed T), then one
\* digit or more, the value within lo..hi
Parse(str, signed, lo, hi) ==
    LET sign == str # <<>> /\ str[1] \in {"+", "-"}
        ds == IF sign THEN Tail(str) ELSE str
        ok == /\ ds # <<>>
              /\ \A i \in DOMAIN ds : IsDigit(ds[i])
              /\ (sign /\ str[1] = "-") => signed
        n == IF sign /\ str[1] = "-" THEN -DigitsValue(ds)
             ELSE DigitsValue(ds)
    IN IF ok /\ n >= lo /\ n <= hi THEN Some(n) ELSE NoValue

parse_i64(str) == Parse(str, TRUE, I64Min, I64Max)
parse_u64(str) == Parse(str, FALSE, 0, U64Max)

\* a json_i64 that parses the string as it arrives
json_i64_NoTrim(v) ==
    IF v = Missing THEN NoValue
    ELSE IF as_i64(v).some THEN as_i64(v)
    ELSE IF as_u64(v).some THEN try_from(as_u64(v).v)
    ELSE IF v.kind = "str"
         THEN IF parse_i64(v.s).some THEN parse_i64(v.s)
              ELSE IF parse_u64(v.s).some
                   THEN try_from(parse_u64(v.s).v)
                   ELSE NoValue
         ELSE NoValue

\* json_i64(value, key), v being value.get(key)
json_i64(v) ==
    IF v = Missing THEN NoValue
    ELSE IF as_i64(v).some THEN as_i64(v)
    ELSE IF as_u64(v).some THEN try_from(as_u64(v).v)
    ELSE IF v.kind = "str"
         THEN LET t == Trim(v.s) IN
              IF parse_i64(t).some THEN parse_i64(t)
              ELSE IF parse_u64(t).some THEN try_from(parse_u64(t).v)
                   ELSE NoValue
         ELSE NoValue

\* rarity and pulled_at of a list item: the number, else the string
\* parsed, else 0
item_i64(v) ==
    LET got == IF v = Missing THEN NoValue
               ELSE IF as_i64(v).some THEN as_i64(v)
               ELSE IF v.kind = "str" THEN parse_i64(v.s)
               ELSE NoValue
    IN IF got.some THEN got ELSE Some(0)

\* ------------------------------------------------------------------------
\* Pull store: rows, records, tables
\* ------------------------------------------------------------------------
Uids == {"u1", "u2"}
\* the account the modelled calls are made for; the rows of the other
\* account are in the store from the start
CallUids == {"u1"}
\* pulled_at values: 0 is the known-invalid timestamp
Timestamps == {0, 1}

\* The identities the modelled server hands out. A seq_id is unique within
\* a pool type only: s1 names a pull of both pools, s2 a pull of one.
RecordKeys ==
    {<<"s1", "E_CharacterGachaPoolType_Special">>,
     <<"s1", "E_CharacterGachaPoolType_Weapon">>,
     <<"s2", "E_CharacterGachaPoolType_Special">>}

\* ApiGachaRecord. pulled_at stands for all the columns the UPDATE sets
\* (banner_id, banner_name, item_name, item_id, rarity, pulled_at, is_free,
\* is_new): they are bound by the same two statements.
ApiRecords ==
    {[seq_id |-> k[1], pool_type |-> k[2], pulled_at |-> ts] :
        k \in RecordKeys, ts \in Timestamps}

Batches == UNION {[1..n -> ApiRecords] : n \in 0..MaxBatch}

\* the row a record is stored as
RowOf(uid, r) ==
    [uid |-> uid, seq_id |-> r.seq_id, pool_type |-> r.pool_type,
     pulled_at |-> r.pulled_at]

\* WHERE uid = ? AND seq_id = ? AND pool_type = ?
Matches(row, uid, r) ==
    /\ row.uid = uid
    /\ row.seq_id = r.seq_id
    /\ row.pool_type = r.pool_type

\* the sub-bag of the rows of t that are in S
Restrict(t, S) == [x \in (DOMAIN t) \cap S |-> t[x]]

\* an UPDATE keyed on (uid, seq_id) only
SqlUpdate_SeqIdOnly(t, uid, r) ==
    LET hit == {row \in BagToSet(t) : row.uid = uid /\ row.seq_id = r.seq_id}
        affected == BagCardinality(Restrict(t, hit))
        rest == Restrict(t, BagToSet(t) \ hit)
        new == {[row EXCEPT !.pulled_at = r.pulled_at] : row \in hit}
    IN [affected |-> affected,
        table |-> IF affected = 0 THEN t
                  ELSE rest (+) [x \in new |->
                        BagCardinality(Restrict(t,
                            {row \in hit :
                                [row EXCEPT !.pulled_at = r.pulled_at] = x}))]]

\* UPDATE gacha_pulls SET ... WHERE uid = ? AND seq_id = ? AND pool_type = ?
\* and its rows_affected()
SqlUpdate(t, uid, r) ==
    LET hit == {row \in BagToSet(t) : Matches(row, uid, r)}
        affected == BagCardinality(Restrict(t, hit))
        rest == Restrict(t, BagToSet(t) \ hit)
    IN [affected |-> affected,
        table |-> IF affected = 0 THEN t
                  ELSE rest (+) [x \in {RowOf(uid, r)} |-> affected]]

\* INSERT INTO gacha_pulls (...) VALUES (...)
SqlInsert(t, uid, r) == t (+) SetToBag({RowOf(uid, r)})

\* a record that is always inserted
UpsertOne_AlwaysInsert(t, uid, r) == SqlInsert(t, uid, r)

\* one iteration of the upsert loop: UPDATE, and INSERT when no row was hit
UpsertOne(t, uid, r) ==
    LET u == SqlUpdate(t, uid, r) IN
    IF u.affected = 0 THEN SqlInsert(u.table, uid, r) ELSE u.table

\* a loop that decides between UPDATE and INSERT from the rows the table
\* held before the batch
UpsertAll_AgainstSnapshot(t, uid, rs) ==
    LET F[i \in 0..Len(rs)] ==
            IF i = 0 THEN t
            ELSE IF SqlUpdate(t, uid, rs[i]).affected = 0
                 THEN SqlInsert(F[i - 1], uid, rs[i])
                 ELSE SqlUpdate(F[i - 1], uid, rs[i]).table
    IN F[Len(rs)]

\* the upsert loop over the batch, in order
RECURSIVE UpsertAll(_, _, _)
UpsertAll(t, uid, rs) ==
    IF rs = <<>> THEN t
    ELSE UpsertAll(UpsertOne(t, uid, Head(rs)), uid, Tail(rs))

\* a save that leaves alone the records whose seq_id the SELECT found
DbSaveGachaRecords_SkipsKnown(t, uid, rs, dbfail) ==
    LET incoming_seq_ids == {rs[i].seq_id : i \in DOMAIN rs}
        existing_seq_ids ==
            {row.seq_id : row \in {x \in BagToSet(t) :
                x.uid = uid /\ x.seq_id \in incoming_seq_ids}}
    IN IF rs = <<>> THEN [table |-> t, ok |-> TRUE]
       ELSE IF dbfail THEN [table |-> t, ok |-> FALSE]
       ELSE [table |->
                UpsertAll(t, uid,
                    SelectSeq(rs,
                        LAMBDA r : r.seq_id \notin existing_seq_ids)),
             ok |-> TRUE]

\* db_save_gacha_records: nothing for an empty batch; otherwise one
\* transaction (the SELECT of existing seq_ids, the loop, the commit) that
\* a failing statement rolls back
DbSaveGachaRecords(t, uid, rs, dbfail) ==
    LET incoming_seq_ids == {rs[i].seq_id : i \in DOMAIN rs}
        existing_seq_ids ==
            {row.seq_id : row \in {x \in BagToSet(t) :
                x.uid = uid /\ x.seq_id \in incoming_seq_ids}}
    IN IF rs = <<>> THEN [table |-> t, ok |-> TRUE]
       ELSE IF dbfail THEN [table |-> t, ok |-> FALSE]
       ELSE [table |-> UpsertAll(t, uid, rs), ok |-> TRUE]

\* a save whose failing last statement leaves the earlier ones in the store
SaveGachaRecordsInternal_NoRollback(t, uid, rs, dbfail) ==
    IF rs = <<>> THEN [table |-> t, ok |-> TRUE]
    ELSE IF dbfail
    THEN [table |-> UpsertAll(t, uid, SubSeq(rs, 1, Len(rs) - 1)),
          ok |-> FALSE]
    ELSE [table |-> UpsertAll(t, uid, rs), ok |-> TRUE]

\* save_gacha_records_internal: nothing for an empty batch; otherwise one
\* transaction (begin, the loop, commit) that a failing statement leaves
\* uncommitted
SaveGachaRecordsInternal(t, uid, rs, dbfail) ==
    IF rs = <<>> THEN [table |-> t, ok |-> TRUE]
    ELSE IF dbfail THEN [table |-> t, ok |-> FALSE]
    ELSE [table |-> UpsertAll(t, uid, rs), ok |-> TRUE]

\* a purge that deletes every row of the account
DeleteInvalid_AllRows(t, uid) ==
    Restrict(t, {row \in BagToSet(t) : ~(row.uid = uid)})

\* a purge without the uid condition
DeleteInvalid_AnyUid(t, uid) ==
    Restrict(t, {row \in BagToSet(t) : ~(row.pulled_at = 0)})

\* DELETE FROM gacha_pulls WHERE uid = ? AND pulled_at = 0
DeleteInvalid(t, uid) ==
    Restrict(t, {row \in BagToSet(t) : ~(row.uid = uid /\ row.pulled_at = 0)})

\* db_delete_invalid_gacha_records
DbDeleteInvalidGachaRecords(t, uid, dbfail) ==
    IF dbfail THEN [table |-> t, ok |-> FALSE]
    ELSE [table |-> DeleteInvalid(t, uid), ok |-> TRUE]

\* ------------------------------------------------------------------------
\* Accounts and the sync commands
\* ------------------------------------------------------------------------
NoAccount == [kind |-> "none"]
\* an accounts row; oauth_token stands for its token columns
Account(oauth) == [kind |-> "account", oauth_token |-> oauth]

SyncModes == {"incremental", "full"}

\* the sync command in flight, if any: its crawls are running between its
\* first and its second step, and it is idle again once it has returned
IdleSync == [op |-> "none", pc |-> "idle", uid |-> None]

\* the (seq_id, pool_type) of a record
Identity(r) == <<r.seq_id, r.pool_type>>

\* what a batch asks the store to hold: for each identity of the batch the
\* pulled_at of its last record with that identity
Want(rs) ==
    [k \in {Identity(rs[i]) : i \in DOMAIN rs} |->
        LET at == {i \in DOMAIN rs : Identity(rs[i]) = k}
            n == CHOOSE i \in at : \A j \in at : j <= i
        IN rs[n].pulled_at]

NoWant == [k \in {} |-> 0]

\* the record of the last call that reached the pull store
NoCall ==
    [kind |-> "none", uid |-> None, ok |-> TRUE, want |-> NoWant,
     repeat |-> FALSE, removed |-> 0]

SaveKinds == {"db_save", "save_internal"}

\* the call record of a save of rs for uid that follows call c; repeat says
\* that c was a successful save of the same identities for the same uid
SaveCall(kind, c, uid, rs, ok) ==
    [kind |-> kind, uid |-> uid, ok |-> ok,
     want |-> IF ok THEN Want(rs) ELSE NoWant,
     repeat |-> /\ ok
                /\ c.kind \in SaveKinds /\ c.ok /\ c.uid = uid
                /\ rs # <<>>
                /\ DOMAIN c.want = DOMAIN Want(rs),
     removed |-> 0]

\* the call record of a purge for uid that took the table from t to t2
PurgeCall(kind, uid, ok, t, t2) ==
    [kind |-> kind, uid |-> uid, ok |-> ok, want |-> NoWant,
     repeat |-> FALSE,
     removed |-> BagCardinality(t) - BagCardinality(t2)]

\* what the network and the store can do to a sync before its crawl
SyncEnvs ==
    [u8_ok : BOOLEAN, profile_ok : BOOLEAN,
     update_fails : BOOLEAN, purge_fails : BOOLEAN]

\* sync_gacha_by_token up to the crawl: read the account, refresh the
\* access token, look the profile up and update the account (a failing
\* lookup is ignored), then in full mode purge the invalid rows, ignoring
\* a failure of the purge
SyncByTokenBegin(t, accs, uid, mode, env) ==
    LET s0 == [op |-> "by_token", pc |-> "crawling", uid |-> uid]
        stop == [table |-> t, accounts |-> accs,
                 sync |-> IdleSync, purged |-> FALSE]
        acc == accs[uid]
    IN IF acc = NoAccount THEN stop
       ELSE IF acc.oauth_token = None \/ acc.oauth_token = "" THEN stop
       ELSE IF ~env.u8_ok THEN stop
       ELSE IF env.profile_ok /\ env.update_fails THEN stop
       ELSE [table |-> IF mode = "full" /\ ~env.purge_fails
                       THEN DeleteInvalid(t, uid) ELSE t,
             accounts |-> accs,
             sync |-> s0,
             purged |-> (mode = "full")]

\* sync_gacha_by_token after the crawls: save what they returned
SyncByTokenEnd(t, s, rs, dbfail) ==
    LET saved == SaveGachaRecordsInternal(t, s.uid, rs, dbfail) IN
    [table |-> saved.table, sync |-> IdleSync, ok |-> saved.ok]

\* sync_gacha_from_log up to the crawl: the profile lookup is fatal here,
\* the account is upserted keeping its stored oauth_token, then in full
\* mode the invalid rows are purged
SyncFromLogBegin(t, accs, uid, mode, env) ==
    LET s0 == [op |-> "from_log", pc |-> "crawling", uid |-> uid]
        stop == [table |-> t, accounts |-> accs,
                 sync |-> IdleSync, purged |-> FALSE]
    IN IF ~env.profile_ok THEN stop
       ELSE IF env.update_fails THEN stop
       ELSE [table |-> IF mode = "full" /\ ~env.purge_fails
                       THEN DeleteInvalid(t, uid) ELSE t,
             accounts |-> IF accs[uid] = NoAccount
                          THEN [accs EXCEPT ![uid] = Account("")]
                          ELSE accs,
             sync |-> s0,
             purged |-> (mode = "full")]

\* sync_gacha_from_log after the crawls
SyncFromLogEnd(t, s, rs, dbfail) ==
    LET saved == SaveGachaRecordsInternal(t, s.uid, rs, dbfail) IN
    [table |-> saved.table, sync |-> IdleSync, ok |-> saved.ok]

\* the stores when no call has been made
DbAtRest ==
    /\ gacha_pulls = EmptyBag
    /\ accounts = [u \in Uids |-> NoAccount]
    /\ sync = IdleSync
    /\ last = NoCall

\* ------------------------------------------------------------------------
\* The record crawl: fetch_char_records_internal and its twins
\* ------------------------------------------------------------------------
\* a seqId that is absent from the item or is not a JSON string
NotAString == "<not a string>"

\* the seqId values of the items the modelled server sends
ItemSeqIds == {"s1", "s2", NotAString}

Items == [seqId : ItemSeqIds]

\* last_seq_id_stop: no sentinel, or the seq_id of a stored row
Sentinels == {None, "s1", ""}

\* item.get("seqId").and_then(as_str).unwrap_or("")
SeqIdOf(item) == IF item.seqId = NotAString THEN "" ELSE item.seqId

\* the GachaRecord built from an item
RecordOf(item, pool_type) ==
    [seq_id |-> SeqIdOf(item), pool_type |-> pool_type]

\* the arrays /data/list can be
ItemLists == UNION {[1..n -> Items] : n \in 0..MaxPageLen}

\* /data/hasMore: absent (or no boolean), true or false
HasMoreValues == {"absent", "true", "false"}

\* the text of a reqwest error (send, or the body is not JSON)
TransportMessage == "<e.to_string()>"
\* the message used when the envelope has no string msg
DefaultMessage == "<default message>"
\* /msg of an envelope: a string, or absent / not a string
EnvelopeMessages == {"m1", NotAString}

TransportError == [kind |-> "transport_error", msg |-> TransportMessage]
\* a response whose code (or status) is missing or not 0
ApiError(msg) == [kind |-> "api_error", msg |-> msg]

\* the message of the error a failed request returns
ErrorMessage(resp) ==
    IF resp.kind = "transport_error" THEN resp.msg
    ELSE IF resp.msg = NotAString THEN DefaultMessage ELSE resp.msg

\* Result<Vec<GachaRecord>, String>
NotReturned == [kind |-> "none", records |-> <<>>, msg |-> None]
CrawlOk(records) == [kind |-> "ok", records |-> records, msg |-> None]
CrawlErr(msg) == [kind |-> "err", records |-> <<>>, msg |-> msg]
\* a response with code 0; has_list says that /data/list is an array
Page(has_list, list, hasMore) ==
    [kind |-> "page", has_list |-> has_list, list |-> list,
     hasMore |-> hasMore]

PageResponses ==
    {TransportError, Page(FALSE, <<>>, "absent")}
        \cup {ApiError(m) : m \in EnvelopeMessages}
        \cup {Page(TRUE, l, h) : l \in ItemLists, h \in HasMoreValues}

\* a scan that appends an item before it compares it with the sentinel
RECURSIVE ScanList_CheckAfterPush(_, _, _, _)
ScanList_CheckAfterPush(recs, items, stop, pool_type) ==
    IF items = <<>> THEN [records |-> recs, matched |-> FALSE]
    ELSE IF stop # None /\ SeqIdOf(Head(items)) = stop
         THEN [records |-> Append(recs, RecordOf(Head(items), pool_type)),
               matched |-> TRUE]
         ELSE ScanList_CheckAfterPush(
                Append(recs, RecordOf(Head(items), pool_type)),
                Tail(items), stop, pool_type)

\* the for loop over the items of a page: stop at the first item whose
\* seq_id is the sentinel (break 'outer), append every item before it
RECURSIVE ScanList(_, _, _, _)
ScanList(recs, items, stop, pool_type) ==
    IF items = <<>> THEN [records |-> recs, matched |-> FALSE]
    ELSE IF stop # None /\ SeqIdOf(Head(items)) = stop
         THEN [records |-> recs, matched |-> TRUE]
         ELSE ScanList(Append(recs, RecordOf(Head(items), pool_type)),
                       Tail(items), stop, pool_type)

IdleCrawl ==
    [pc |-> "idle", stop |-> None, pool_type |-> None,
     all_records |-> <<>>, next_seq_id |-> None,
     requests |-> <<>>, pages |-> <<>>, why |-> None,
     hasMore |-> None, all_more |-> TRUE, returned |-> NotReturned]

\* the call: the arguments are bound, all_records and next_seq_id are set up
CrawlBegin(stop, pool_type) ==
    [IdleCrawl EXCEPT !.pc = "running", !.stop = stop,
                      !.pool_type = pool_type]

\* a loop tail without the hasMore test
AfterPage_IgnoreHasMore(c, hasMore) ==
    IF Len(c.all_records) > MaxRecords
    THEN [c EXCEPT !.pc = "ok", !.why = "cap"]
    ELSE c

\* a loop tail that reports the cap as an error
AfterPage_CapIsError(c, hasMore) ==
    IF Len(c.all_records) > MaxRecords
    THEN [c EXCEPT !.pc = "err", !.why = "cap"]
    ELSE IF hasMore = "false"
    THEN [c EXCEPT !.pc = "ok", !.why = "no more"]
    ELSE c

\* a loop tail that takes a page without hasMore for the last one
AfterPage_AbsentIsLast(c, hasMore) ==
    IF Len(c.all_records) > MaxRecords
    THEN [c EXCEPT !.pc = "ok", !.why = "cap"]
    ELSE IF hasMore # "true"
    THEN [c EXCEPT !.pc = "ok", !.why = "no more"]
    ELSE c

\* a loop tail without the record cap
AfterPage_NoCap(c, hasMore) ==
    IF hasMore = "false"
    THEN [c EXCEPT !.pc = "ok", !.why = "no more"]
    ELSE c

\* the tail of an iteration, once the page's records are appended and the
\* cursor is moved: leave the loop when more than the cap is held, or when
\* the page said hasMore = false; otherwise go round again
AfterPage(c, hasMore) ==
    IF Len(c.all_records) > MaxRecords
    THEN [c EXCEPT !.pc = "ok", !.why = "cap"]
    ELSE IF hasMore = "false"
    THEN [c EXCEPT !.pc = "ok", !.why = "no more"]
    ELSE c

\* an iteration that moves the cursor to the first record of the page
CrawlStep_CursorOfFirst(c, resp) ==
    LET sent == [c EXCEPT !.requests = Append(@, c.next_seq_id),
                          !.hasMore = IF resp.kind = "page"
                                      THEN resp.hasMore ELSE None,
                          !.all_more = /\ @
                                       /\ resp.kind = "page"
                                       /\ resp.has_list
                                       /\ resp.list # <<>>
                                       /\ resp.hasMore = "true"]
    IN
    IF resp.kind # "page"
    THEN [sent EXCEPT !.pc = "err", !.why = resp.kind,
                      !.returned = CrawlErr(ErrorMessage(resp))]
    ELSE IF ~resp.has_list \/ resp.list = <<>>
    THEN [sent EXCEPT !.pc = "ok", !.why = "end of list"]
    ELSE
        LET scan == ScanList(c.all_records, resp.list, c.stop, c.pool_type)
            got == [sent EXCEPT !.pages = Append(@, resp.list),
                                !.all_records = scan.records]
        IN IF scan.matched
           THEN [got EXCEPT !.pc = "ok", !.why = "sentinel"]
           ELSE IF scan.records = <<>>
           THEN [got EXCEPT !.pc = "ok", !.why = "no records"]
           ELSE AfterPage([got EXCEPT !.next_seq_id =
                                scan.records[Len(c.all_records) + 1].seq_id],
                          resp.hasMore)

\* one iteration of the loop: a request with the cursor, and what its
\* response does to the crawl. requests lists the cursor of every request
\* issued, pages the item lists received; hasMore is the hasMore of the
\* last response, all_more says that every response so far was a page with
\* items and hasMore = true.
CrawlIteration(c, resp) ==
    LET sent == [c EXCEPT !.requests = Append(@, c.next_seq_id),
                          !.hasMore = IF resp.kind = "page"
                                      THEN resp.hasMore ELSE None,
                          !.all_more = /\ @
                                       /\ resp.kind = "page"
                                       /\ resp.has_list
                                       /\ resp.list # <<>>
                                       /\ resp.hasMore = "true"]
    IN
    IF resp.kind # "page"
    THEN [sent EXCEPT !.pc = "err", !.why = resp.kind,
                      !.returned = CrawlErr(ErrorMessage(resp))]
    ELSE IF ~resp.has_list \/ resp.list = <<>>
    THEN [sent EXCEPT !.pc = "ok", !.why = "end of list"]
    ELSE
        LET scan == ScanList(c.all_records, resp.list, c.stop, c.pool_type)
            got == [sent EXCEPT !.pages = Append(@, resp.list),
                                !.all_records = scan.records]
        IN IF scan.matched
           THEN [got EXCEPT !.pc = "ok", !.why = "sentinel"]
           ELSE IF scan.records = <<>>
           THEN [got EXCEPT !.pc = "ok", !.why = "no records"]
           ELSE AfterPage([got EXCEPT !.next_seq_id =
                                scan.records[Len(scan.records)].seq_id],
                          resp.hasMore)

\* a crawl whose failed request returns what it has accumulated
CrawlStep_ErrorReturnsPartial(c, resp) ==
    LET n == CrawlIteration(c, resp) IN
    IF n.pc \in {"ok", "err"}
    THEN [n EXCEPT !.returned = CrawlOk(n.all_records)]
    ELSE n

\* one iteration, and Ok(all_records) once the loop is left
CrawlStep(c, resp) ==
    LET n == CrawlIteration(c, resp) IN
    IF n.pc = "ok" THEN [n EXCEPT !.returned = CrawlOk(n.all_records)]
    ELSE n

CrawlAtRest == crawl = IdleCrawl

\* ------------------------------------------------------------------------
\* The token columns of the accounts table
\* ------------------------------------------------------------------------
\* SQL NULL, and None of an Option<String> bound to a statement
Null == "<null>"

\* the token strings of the model; "" is the empty token
Tokens == {"", "t1", "t2"}

\* an Option<String> token argument
OptTokens == Tokens \cup {Null}

\* nick_name: NULL or a name
NickNames == {Null, "n1"}

\* no row for the uid
NoRow == [kind |-> "none"]

Row(nick, user, oauth, u8) ==
    [kind |-> "row", nick_name |-> nick,
     user_token |-> user, oauth_token |-> oauth, u8_token |-> u8]

\* COALESCE(a, b)
Coalesce(a, b) == IF a # Null THEN a ELSE b

\* CASE WHEN excluded != '' THEN excluded ELSE stored END; the comparison
\* of NULL with '' is not true
UnlessEmpty(excluded, stored) ==
    IF excluded # Null /\ excluded # "" THEN excluded ELSE stored

\* INSERT ... ON CONFLICT(uid) DO UPDATE of db_upsert_account: the three
\* tokens are inserted as COALESCE(?, '') and merged with the CASE guard
DbUpsertAccount(tk, uid, nick, user, oauth, u8) ==
    LET ex == Row(nick, Coalesce(user, ""), Coalesce(oauth, ""),
                  Coalesce(u8, ""))
        old == tk[uid]
    IN [tk EXCEPT ![uid] =
            IF old = NoRow THEN ex
            ELSE Row(Coalesce(ex.nick_name, old.nick_name),
                     UnlessEmpty(ex.user_token, old.user_token),
                     UnlessEmpty(ex.oauth_token, old.oauth_token),
                     UnlessEmpty(ex.u8_token, old.u8_token))]

\* the upsert of add_account_by_token for one role of one binding: the
\* user token and the granted oauth token are bound as they are, the
\* refreshed access token as COALESCE(?, '')
AddAccountUpsert(tk, uid, nick, user, oauth, u8t) ==
    LET ex == Row(nick, user, oauth, Coalesce(u8t, ""))
        old == tk[uid]
    IN [tk EXCEPT ![uid] =
            IF old = NoRow THEN ex
            ELSE Row(Coalesce(ex.nick_name, old.nick_name),
                     UnlessEmpty(ex.user_token, old.user_token),
                     UnlessEmpty(ex.oauth_token, old.oauth_token),
                     UnlessEmpty(ex.u8_token, old.u8_token))]

\* the bindings a binding list resolves to: uid, nick name and what
\* get_u8_token(...).ok() gave for it
Bindings == [uid : Uids, nick_name : {"n1"}, u8t : OptTokens]

BindingLists == UNION {[1..n -> Bindings] : n \in 0..MaxBindings}

\* the loop of add_account_by_token over the roles found
RECURSIVE AddAccounts(_, _, _, _)
AddAccounts(tk, bs, user, oauth) ==
    IF bs = <<>> THEN tk
    ELSE AddAccounts(AddAccountUpsert(tk, bs[1].uid, bs[1].nick_name,
                                      user, oauth, bs[1].u8t),
                     Tail(bs), user, oauth)

\* the upsert of sync_gacha_from_log: user_token and oauth_token are ''
\* and keep the stored value, u8_token is the u8_token parameter of the
\* logged URL, merged with COALESCE
SyncFromLogUpsert(tk, uid, nick, u8_token) ==
    LET ex == Row(nick, "", "", u8_token)
        old == tk[uid]
    IN [tk EXCEPT ![uid] =
            IF old = NoRow THEN ex
            ELSE Row(Coalesce(ex.nick_name, old.nick_name),
                     UnlessEmpty(ex.user_token, old.user_token),
                     UnlessEmpty(ex.oauth_token, old.oauth_token),
                     Coalesce(ex.u8_token, old.u8_token))]

\* the UPDATE of sync_gacha_by_token after a profile lookup: role_id,
\* nick_name and channel_id only
SyncByTokenUpdate(tk, uid, nick) ==
    IF tk[uid] = NoRow THEN tk
    ELSE [tk EXCEPT ![uid].nick_name = Coalesce(nick, @)]

\* DELETE FROM accounts WHERE uid = ?
DbDeleteAccount(tk, uid) == [tk EXCEPT ![uid] = NoRow]

TokensAtRest == tokens = [u \in Uids |-> NoRow]

\* ------------------------------------------------------------------------
\* sync_gacha_by_token, call by call
\* ------------------------------------------------------------------------
\* the fixed character pool types, in the order they are crawled
CharPoolTypes ==
    <<"E_CharacterGachaPoolType_Special",
      "E_CharacterGachaPoolType_Standard",
      "E_CharacterGachaPoolType_Beginner">>

\* the pool_type every weapon record is given
WeaponPoolType == "E_CharacterGachaPoolType_Weapon"

\* the poolId values of the modelled weapon pool list
WeaponPoolIds == {"w1"}

\* what fetch_weapon_pools_internal gives: an error or the pool ids
WeaponPoolResults ==
    [ok : {FALSE}, list : {<<>>}] \cup
    [ok : {TRUE},
     list : UNION {[1..n -> WeaponPoolIds] : n \in 0..MaxWeaponPools}]

\* a crawl: what it is called with and the pool_type of its records
CharTarget(pt) == [pool |-> pt, pool_type |-> pt]

WeaponTarget(pool_id) == [pool |-> pool_id, pool_type |-> WeaponPoolType]

\* the pools a crawl can be called for
PoolNames == {CharPoolTypes[i] : i \in 1..Len(CharPoolTypes)} \cup WeaponPoolIds

\* what a crawl gives: an error, or n records
CrawlOutcomes ==
    [ok : {FALSE}, n : {0}] \cup [ok : {TRUE}, n : 0..MaxCrawled]

\* the seq_id of the i-th record of a crawl
CrawledSeqIds == <<"s1", "s2", "s3">>

\* the records of a crawl that gives n of them, newest first; they are
\* newer than every stored row
CrawledRecords(target, n) ==
    [i \in 1..n |-> [seq_id |-> CrawledSeqIds[i],
                     pool_type |-> target.pool_type,
                     pulled_at |-> 3]]

\* the stored rows of the account as rows to pick: <<row, copy>>
Copies(t, uid) ==
    {c \in BagToSet(t) \X (1..BagCardinality(t)) :
        c[1].uid = uid /\ c[2] <= t[c[1]]}

\* ORDER BY pulled_at DESC LIMIT ...: the sets of rows the query can
\* return, rows of equal pulled_at coming in any order
Lookbacks(t, uid) ==
    LET all == Copies(t, uid)
        k == IF Cardinality(all) < MaxLookback
             THEN Cardinality(all) ELSE MaxLookback
    IN {S \in SUBSET all :
            /\ Cardinality(S) = k
            /\ \A a \in S, b \in all \ S :
                    a[1].pulled_at >= b[1].pulled_at}

\* last_seq_map.entry(pool_type).or_insert(seq_id) over the rows returned:
\* for each pool_type among them the seq_id of a newest row of that type
LastSeqMapsOf(S) ==
    LET types == {c[1].pool_type : c \in S}
        ids == {c[1].seq_id : c \in S}
    IN {m \in [types -> ids] :
            \A pt \in types :
                \E c \in S :
                    /\ c[1].pool_type = pt
                    /\ c[1].seq_id = m[pt]
                    /\ \A d \in S : d[1].pool_type = pt =>
                            c[1].pulled_at >= d[1].pulled_at}

\* the maps the sentinel query of an incremental sync can build
LastSeqMaps(t, uid) == UNION {LastSeqMapsOf(S) : S \in Lookbacks(t, uid)}

\* last_seq_map with no entry
NoSentinels == [k \in {} |-> None]

\* last_seq_map.get(key)
StopAt(map, key) == IF key \in DOMAIN map THEN map[key] ELSE None

\* what the network and the store do to one call
JobEnvs ==
    [u8_ok : BOOLEAN, profile_ok : BOOLEAN, update_fails : BOOLEAN,
     select_fails : BOOLEAN, purge_fails : BOOLEAN, save_fails : BOOLEAN]

\* the same, without the failures a call of the mode cannot meet: those of
\* the steps after a fatal one and those of the other mode's statement
JobEnvsOf(mode) ==
    {e \in JobEnvs :
        /\ ~e.u8_ok => ~e.profile_ok
        /\ ~e.profile_ok => ~e.update_fails
        /\ (~e.u8_ok \/ e.update_fails) =>
                ~e.select_fails /\ ~e.purge_fails /\ ~e.save_fails
        /\ mode = "incremental" => ~e.purge_fails
        /\ mode = "full" => ~e.select_fails}

\* the outcomes of the crawls of a call: one for each pool it crawls
CrawlOutcomesOf(pools) ==
    {out \in [PoolNames -> CrawlOutcomes] :
        \A w \in WeaponPoolIds :
            (\A i \in DOMAIN pools.list : pools.list[i] # w) => ~out[w].ok}

\* the result of a call
Running ==
    [kind |-> "running", why |-> None, count |-> 0, account_updated |-> FALSE]

Err(why) ==
    [kind |-> "err", why |-> why, count |-> 0, account_updated |-> FALSE]

Ok(count, account_updated) ==
    [kind |-> "ok", why |-> None, count |-> count,
     account_updated |-> account_updated]

\* one request or statement of a call, in the order they are issued
Event(ev, pool, pool_type, stop, ok, n) ==
    [ev |-> ev, pool |-> pool, pool_type |-> pool_type, stop |-> stop,
     ok |-> ok, n |-> n]

Did(ev, ok) == Event(ev, None, None, None, ok, 0)

\* no call made
IdleJob ==
    [uid |-> None, mode |-> None, table |-> EmptyBag, row |-> NoRow,
     before |-> EmptyBag, row_before |-> NoRow, at_begin |-> EmptyBag,
     events |-> <<>>, records |-> <<>>, last_seq_map |-> NoSentinels,
     account_updated |-> FALSE, result |-> [Running EXCEPT !.kind = "idle"]]

\* the call starts: the store and the account row as it finds them
JobBegin(t, row, uid, mode) ==
    [IdleJob EXCEPT !.uid = uid, !.mode = mode, !.table = t, !.row = row,
                    !.before = t, !.row_before = row, !.at_begin = t,
                    !.result = Running]

\* 1. the account is read; it must exist and hold an oauth token
ReadAccount(j) ==
    IF j.row = NoRow THEN [j EXCEPT !.result = Err("no account")]
    ELSE IF j.row.oauth_token \in {Null, ""}
    THEN [j EXCEPT !.result = Err("no oauth token")]
    ELSE j

\* a refresh whose failure is not fatal
RefreshU8_FailureIgnored(j, u8_ok) ==
    IF j.result.kind # "running" THEN j
    ELSE [j EXCEPT !.events = Append(@, Did("u8", u8_ok))]

\* 2. get_u8_token(...).await?
RefreshU8(j, u8_ok) ==
    IF j.result.kind # "running" THEN j
    ELSE LET asked == [j EXCEPT !.events = Append(@, Did("u8", u8_ok))]
         IN IF u8_ok THEN asked
            ELSE [asked EXCEPT !.result = Err("u8")]

\* an update step that reports the account as updated whatever happened
UpdateProfile_AlwaysUpdated(j, profile_ok, nick, update_fails) ==
    IF j.result.kind # "running" THEN j
    ELSE [j EXCEPT !.events = Append(@, Did("profile", profile_ok)),
                   !.account_updated = TRUE]

\* 3. query_role_list(...).await.ok(), and on success the UPDATE of the
\* account, whose failure is fatal
UpdateProfile(j, profile_ok, nick, update_fails) ==
    IF j.result.kind # "running" THEN j
    ELSE LET asked == [j EXCEPT !.events = Append(@, Did("profile", profile_ok))]
         IN IF ~profile_ok THEN asked
            ELSE LET tried == [asked EXCEPT !.events =
                        Append(@, Did("update_account", ~update_fails))]
                 IN IF update_fails
                    THEN [tried EXCEPT !.result = Err("update account")]
                    ELSE [tried EXCEPT
                            !.row.nick_name = Coalesce(nick, @),
                            !.account_updated = TRUE]

\* 4. incremental mode: the sentinel query; a failing query gives no rows
LoadSentinels(j, select_fails, map) ==
    IF j.result.kind # "running" \/ j.mode # "incremental" THEN j
    ELSE [j EXCEPT !.events = Append(@, Did("select_last", ~select_fails)),
                   !.last_seq_map = IF select_fails THEN NoSentinels ELSE map]

\* 5. full mode: the purge of the invalid rows, its failure ignored
PurgeInvalid(j, purge_fails) ==
    IF j.result.kind # "running" \/ j.mode # "full" THEN j
    ELSE [j EXCEPT !.events = Append(@, Did("purge", ~purge_fails)),
                   !.table = IF purge_fails THEN @
                             ELSE DeleteInvalid(@, j.uid)]

\* a crawl whose failure ends the call
CrawlOne_FailFast(j, target, o) ==
    IF j.result.kind # "running" THEN j
    ELSE LET stop == StopAt(j.last_seq_map, target.pool)
             asked == [j EXCEPT !.events = Append(@,
                          Event("crawl", target.pool, target.pool_type,
                                stop, o.ok, o.n))]
         IN IF o.ok
            THEN [asked EXCEPT !.records = @ \o CrawledRecords(target, o.n)]
            ELSE [asked EXCEPT !.result = Err("crawl")]

\* 6. one crawl: its sentinel is looked up under the name the crawl is
\* called with; its records are kept, its failure is logged
CrawlOne(j, target, o) ==
    IF j.result.kind # "running" THEN j
    ELSE LET stop == StopAt(j.last_seq_map, target.pool)
             asked == [j EXCEPT !.events = Append(@,
                          Event("crawl", target.pool, target.pool_type,
                                stop, o.ok, o.n))]
         IN IF o.ok
            THEN [asked EXCEPT !.records = @ \o CrawledRecords(target, o.n)]
            ELSE asked

RECURSIVE CrawlEach(_, _, _)
CrawlEach(j, targets, out) ==
    IF targets = <<>> THEN j
    ELSE CrawlEach(CrawlOne(j, Head(targets), out[Head(targets).pool]),
                   Tail(targets), out)

\* the crawls of the three character pool types
CrawlChars(j, out) ==
    CrawlEach(j, [i \in DOMAIN CharPoolTypes |-> CharTarget(CharPoolTypes[i])],
              out)

\* the weapon pool list and, when it arrives, the crawl of each pool
CrawlWeapons(j, pools, out) ==
    IF j.result.kind # "running" THEN j
    ELSE CrawlEach([j EXCEPT !.events = Append(@,
                        Event("weapon_pools", None, None, None,
                              pools.ok, Len(pools.list)))],
                   [i \in DOMAIN pools.list |-> WeaponTarget(pools.list[i])],
                   out)

\* 7. the save of everything fetched, if anything was, and the result
SaveAll(j, save_fails) ==
    IF j.result.kind # "running" THEN j
    ELSE IF j.records = <<>>
    THEN [j EXCEPT !.at_begin = j.table,
                   !.result = Ok(0, j.account_updated)]
    ELSE LET saved == SaveGachaRecordsInternal(j.table, j.uid, j.records,
                                               save_fails)
             begun == [j EXCEPT !.at_begin = j.table,
                                !.table = saved.table,
                                !.events = Append(@, Did("begin", TRUE))]
         IN IF saved.ok
            THEN [begun EXCEPT !.events = Append(@, Did("commit", TRUE)),
                               !.result = Ok(Len(j.records),
                                             j.account_updated)]
            ELSE [begun EXCEPT !.events = Append(@, Did("rollback", TRUE)),
                               !.result = Err("save")]

\* sync_gacha_by_token
SyncGachaByToken(t, row, uid, mode, env, nick, map, pools, out) ==
    LET j1 == ReadAccount(JobBegin(t, row, uid, mode))
        j2 == RefreshU8(j1, env.u8_ok)
        j3 == UpdateProfile(j2, env.profile_ok, nick, env.update_fails)
        j4 == LoadSentinels(j3, env.select_fails, map)
        j5 == PurgeInvalid(j4, env.purge_fails)
        j6 == CrawlChars(j5, out)
        j7 == CrawlWeapons(j6, pools, out)
    IN SaveAll(j7, env.save_fails)

JobAtRest == job = IdleJob

\* ------------------------------------------------------------------------
\* Mirror: actions
\* ------------------------------------------------------------------------
\* no call is in progress
MirrorIdle == run.pc \in {"idle", "ok", "err"}

UpdateStart ==
    /\ MirrorIdle
    /\ \E resp \in ManifestResponses(served) :
        LET n == UpdateBegin(disk, run, resp) IN
        /\ disk' = n.disk
        /\ run' = n.run
    /\ UNCHANGED <<served, dbVars, crawlVars, tokenVars, jobVars, calcVars>>

UpdateDownload ==
    /\ run.op = "update" /\ run.pc = "downloading"
    /\ run.idx < Len(run.queue)
    /\ \E resp \in FileResponses :
        LET n == UpdateDownloadStep(disk, run, resp) IN
        /\ disk' = n.disk
        /\ run' = n.run
    /\ UNCHANGED <<served, dbVars, crawlVars, tokenVars, jobVars, calcVars>>

\* the base URL is None, empty or blank
UpdateWithoutBase ==
    /\ MirrorIdle
    /\ \E dir \in BOOLEAN :
        /\ ~dir => disk = EmptyDir
        /\ LET n == UpdateNoBase(disk, run, dir) IN
            /\ disk' = n.disk
            /\ run' = n.run
    /\ UNCHANGED <<served, dbVars, crawlVars, tokenVars, jobVars, calcVars>>

ResetWithoutBase ==
    /\ MirrorIdle
    /\ \E dir \in BOOLEAN :
        /\ ~dir => disk = EmptyDir
        /\ LET n == ResetNoBase(disk, run, dir) IN
            /\ disk' = n.disk
            /\ run' = n.run
    /\ UNCHANGED <<served, dbVars, crawlVars, tokenVars, jobVars, calcVars>>

UpdateFinish ==
    /\ run.op = "update" /\ run.pc = "downloading"
    /\ run.idx = Len(run.queue)
    /\ LET n == UpdateFinishStep(disk, run) IN
        /\ disk' = n.disk
        /\ run' = n.run
    /\ UNCHANGED <<served, dbVars, crawlVars, tokenVars, jobVars, calcVars>>

ResetStart ==
    /\ MirrorIdle
    /\ \E resp \in ManifestResponses(served) :
        LET n == ResetBegin(disk, run, resp) IN
        /\ disk' = n.disk
        /\ run' = n.run
    /\ UNCHANGED <<served, dbVars, crawlVars, tokenVars, jobVars, calcVars>>

ResetDownload ==
    /\ run.op = "reset" /\ run.pc = "downloading"
    /\ run.idx < Len(run.queue)
    /\ \E resp \in FileResponses :
        LET n == ResetDownloadStep(disk, run, resp) IN
        /\ disk' = n.disk
        /\ run' = n.run
    /\ UNCHANGED <<served, dbVars, crawlVars, tokenVars, jobVars, calcVars>>

ResetFinish ==
    /\ run.op = "reset" /\ run.pc = "downloading"
    /\ run.idx = Len(run.queue)
    /\ LET n == ResetFinishStep(disk, run) IN
        /\ disk' = n.disk
        /\ run' = n.run
    /\ UNCHANGED <<served, dbVars, crawlVars, tokenVars, jobVars, calcVars>>

\* the mirror before the first call: any files, no sidecar or an old one
InitMirror ==
    /\ served \in Manifests
    /\ disk \in {d \in [AllPaths ->
                            FileBytes \cup {NoFile, OldDoc, Unreadable}] :
                    /\ d[SidecarPath] \in {NoFile, OldDoc}
                    /\ \A p \in EntryPaths :
                          d[p] \in FileBytes \cup {NoFile, Unreadable}
                    /\ d[PathNested] \in {NoFile, Bytes(1)}}
    /\ run = IdleRun
    /\ DbAtRest
    /\ CrawlAtRest
    /\ TokensAtRest
    /\ JobAtRest
    /\ CalcAtRest

NextMirror ==
    \/ UpdateStart
    \/ UpdateDownload
    \/ UpdateFinish
    \/ ResetStart
    \/ ResetDownload
    \/ ResetFinish
    \/ UpdateWithoutBase
    \/ ResetWithoutBase

SpecMirror == InitMirror /\ [][NextMirror]_vars

\* ------------------------------------------------------------------------
\* Mirror: properties
\* ------------------------------------------------------------------------
Range(q) == {q[i] : i \in DOMAIN q}

\* relative paths of the regular files under the root, sidecar excluded
MirrorFiles(d) == {p \in AllPaths \ {SidecarPath} : Exists(d, p)}

UpdateOk == run.op = "update" /\ run.pc = "ok"

\* an entry whose local file exists at the call and whose digest equals
\* the manifest checksum, compared case-insensitively
MatchesLocal(d, e) ==
    /\ e.path # NoPath
    /\ Exists(d, e.path)
    /\ compute_sha256(d[e.path]).ok
    /\ to_uppercase(compute_sha256(d[e.path]).hash) = to_uppercase(e.checksum)

\* C1: after update_metadata returns success against manifest M, the files
\* under the mirror root, sidecar excluded, are exactly the entry paths of M,
\* whatever the directory held before.
C1_MirrorEqualsManifest ==
    UpdateOk => MirrorFiles(disk) = ManifestPaths(run.manifest.entries)

\* C2: an update_metadata that directly follows a successful update_metadata
\* against the same manifest requests no file, writes no entry file and
\* deletes nothing.
C2_SecondRunNoOp ==
    (UpdateOk /\ run.after_ok_update /\ run.pre[SidecarPath] = run.manifest)
        => /\ run.requested = <<>>
           /\ run.written = <<>>
           /\ run.deleted = {}

\* C3: during update_metadata an entry whose local file exists and matches
\* the manifest checksum (case-insensitively) is never requested from the
\* host and never rewritten.
C3_MatchingNeverFetched ==
    (run.op = "update" /\ run.manifest # NoFile) =>
        \A i \in DOMAIN run.manifest.entries :
            LET e == run.manifest.entries[i] IN
            MatchesLocal(run.pre, e) =>
                /\ e.path \notin Range(run.requested)
                /\ \A k \in DOMAIN run.written : run.written[k].path # e.path
                /\ disk[e.path] = run.pre[e.path]

\* a finished update that downloaded something but skipped an entry whose
\* checksum is spelled in lower case in the manifest
C3_Witness ==
    /\ UpdateOk
    /\ run.requested # <<>>
    /\ \E i \in DOMAIN run.manifest.entries :
        /\ MatchesLocal(run.pre, run.manifest.entries[i])
        /\ run.manifest.entries[i].checksum = <<"0", "a">>

\* C4: update_metadata replaces the sidecar only after every queued download
\* succeeded and the clean phase ran; until then, and whenever it returns an
\* error, the sidecar is what it was before the call.
C4_SidecarWrittenLast ==
    run.op = "update" =>
        /\ run.pc # "ok" => disk[SidecarPath] = run.pre[SidecarPath]
        /\ run.pc = "ok" =>
            /\ disk[SidecarPath] = run.manifest
            /\ Len(run.written) = Len(run.queue)
            /\ ~run.failed
            /\ run.cleaned

\* an update that failed on its second download, with an older sidecar
C4_Witness ==
    /\ run.op = "update" /\ run.pc = "err" /\ run.failed
    /\ Len(run.written) = 1
    /\ run.pre[SidecarPath] = OldDoc
    /\ disk[SidecarPath] = OldDoc

\* C5: in a full reset the sidecar holds manifest M only if every entry of
\* M has been downloaded: the sidecar is written last.
C5_ResetSidecarLast ==
    (run.op = "reset" /\ disk[SidecarPath] = run.manifest
        /\ run.manifest # NoFile)
        => \A p \in ManifestPaths(run.manifest.entries) :
                \E k \in DOMAIN run.written : run.written[k].path = p

\* C6: the first non-success file response of the Downloading phase ends
\* update_metadata with an error at once: nothing later in the queue is
\* requested, nothing is deleted, the files written before it stay.
C6_AbortOnFailedDownload ==
    (run.op = "update" /\ run.failed) =>
        /\ run.pc = "err"
        /\ run.requested = SubSeq(run.queue, 1, run.idx + 1)
        /\ Len(run.written) = run.idx
        /\ run.deleted = {} /\ ~run.cleaned
        /\ \A k \in DOMAIN run.written :
            /\ run.written[k].path = run.queue[k]
            /\ disk[run.written[k].path] = run.written[k].bytes
        /\ ExtraFiles(run.pre, {}) \subseteq ExtraFiles(disk, {})

\* an update that wrote one file, failed on the next, and left in place a
\* file the manifest does not name
C6_Witness ==
    /\ run.op = "update" /\ run.failed /\ run.pc = "err"
    /\ Len(run.written) = 1
    /\ Len(run.queue) = 2

\* a call made without a base URL has returned
NoBaseCall == run.op \in {"update_no_base", "reset_no_base"}

\* C22: update_metadata and reset_metadata called with the base URL absent
\* or blank return success with the default status (no files, empty, no
\* manifest, no version) and request neither the manifest nor a file.
C22_NoBaseNoRequest ==
    NoBaseCall =>
        /\ run.pc = "ok"
        /\ run.status = DefaultStatus
        /\ ~run.manifest_asked
        /\ run.requested = <<>>
        /\ run.events = <<>>

\* an update without base URL on a mirror that holds files
C22_Witness ==
    /\ run.op = "update_no_base"
    /\ run.pc = "ok"
    /\ run.status = DefaultStatus
    /\ Exists(disk, PathA)

\* the position of a phase in Verifying -> Downloading -> Cleaning
PhaseRank(phase) ==
    CASE phase = "Verifying" -> 1
      [] phase = "Downloading" -> 2
      [] phase = "Cleaning" -> 3

\* the events of one phase, in the order they were emitted
EventsOfPhase(phase) ==
    SelectSeq(run.events, LAMBDA e : e.phase = phase)

\* C23: the progress events of an update_metadata run are ordered by phase:
\* every Verifying event precedes every Downloading event, which precedes
\* every Cleaning event, so no phase is entered again; Downloading and
\* Cleaning events are emitted only while that phase runs, and a run that
\* has ended did so in success after the Cleaning phase or in an error.
C23_PhasesInOrder ==
    run.op = "update" =>
        /\ \A i, j \in DOMAIN run.events :
              i < j => PhaseRank(run.events[i].phase)
                          <= PhaseRank(run.events[j].phase)
        /\ run.pc \in {"downloading", "ok", "err"}
        /\ run.pc = "ok" => run.cleaned /\ run.idx = Len(run.queue)
        /\ EventsOfPhase("Cleaning") # <<>> => run.pc = "ok"
        /\ Len(EventsOfPhase("Downloading")) = Len(run.requested)

\* a successful update that emitted events of all three phases
C23_Witness ==
    /\ UpdateOk
    /\ EventsOfPhase("Verifying") # <<>>
    /\ EventsOfPhase("Downloading") # <<>>
    /\ EventsOfPhase("Cleaning") # <<>>

\* C24 as stated: the Verifying events of an update_metadata run that has
\* read manifest M are exactly one per entry of M, in order, each with
\* current = the entry's position, total = the number of entries and the
\* entry's path.
C24_OneVerifyingEventPerEntry ==
    (run.op = "update" /\ run.pc \in {"downloading", "ok"}) =>
        /\ Len(EventsOfPhase("Verifying")) = Len(run.manifest.entries)
        /\ \A i \in DOMAIN run.manifest.entries :
              EventsOfPhase("Verifying")[i] =
                  Progress("Verifying", i, Len(run.manifest.entries),
                           run.manifest.entries[i].path)

\* C24, amended: the Verifying events of a run begin with one event
\* (current 0, total 1, path manifest.json) emitted before the manifest is
\* requested, also when that request fails; once the manifest is read they
\* are that event followed by one event for each entry that has a path,
\* with current = the entry's position, total = the number of entries and
\* the entry's path; an entry without path has no event.
C24_EarlyEventThenEntriesWithPath ==
    run.op = "update" =>
        /\ run.events # <<>> /\ run.events[1] = EarlyEvent
        /\ run.pc \in {"downloading", "ok"} =>
              /\ EventsOfPhase("Verifying") =
                    <<EarlyEvent>> \o VerifyEvents(run.manifest.entries)
              /\ \A i \in DOMAIN run.manifest.entries :
                    LET e == run.manifest.entries[i]
                        ev == Progress("Verifying", i,
                                       Len(run.manifest.entries), e.path)
                    IN Cardinality({k \in DOMAIN run.events :
                                        run.events[k] = ev})
                          = IF e.path = NoPath THEN 0 ELSE 1

\* a verified manifest of two entries, one of them without path
C24_Witness ==
    /\ run.op = "update" /\ run.pc \in {"downloading", "ok"}
    /\ Len(run.manifest.entries) = 2
    /\ \E i, j \in DOMAIN run.manifest.entries :
          /\ run.manifest.entries[i].path = NoPath
          /\ run.manifest.entries[j].path # NoPath
    /\ Len(EventsOfPhase("Verifying")) = 2

\* C25: after a successful reset_metadata against manifest M every entry
\* of M that names a path was requested, once and in manifest order, none
\* was verified or skipped, the bytes received are the bytes on disk, and
\* the mirror holds exactly M's entry paths plus the sidecar, whatever the
\* directory held before the call.
C25_ResetDownloadsEverything ==
    (run.op = "reset" /\ run.pc = "ok") =>
        /\ run.requested = EntryPathSeq(run.manifest.entries)
        /\ Range(run.requested) = ManifestPaths(run.manifest.entries)
        /\ Len(run.written) = Len(run.requested)
        /\ \A i \in DOMAIN run.written :
              /\ run.written[i].path = run.requested[i]
              /\ disk[run.written[i].path] = run.written[i].bytes
        /\ run.events = <<>>
        /\ MirrorFiles(disk) = ManifestPaths(run.manifest.entries)
        /\ disk[SidecarPath] = run.manifest

\* a successful reset of a directory that held a file the manifest does not
\* name and a file that already matched its entry
C25_Witness ==
    /\ run.op = "reset" /\ run.pc = "ok"
    /\ Exists(run.pre, PathNested)
    /\ ~Exists(disk, PathNested)
    /\ \E i \in DOMAIN run.manifest.entries :
          LET e == run.manifest.entries[i] IN
          /\ e.path # NoPath
          /\ Exists(run.pre, e.path)
          /\ ~NeedsDownload(run.pre, e)
          /\ e.path \in Range(run.requested)

\* the files under the mirror root, sidecar included
FilesOnDisk == {p \in AllPaths : disk[p] # NoFile}

\* C29: when update_metadata or reset_metadata has returned success after
\* applying a manifest, the status it returned describes the disk:
\* file_count is the number of files under the mirror root, is_empty holds
\* exactly when that number is 0, has_manifest exactly when the sidecar
\* exists.
C29_StatusMatchesDisk ==
    (run.op \in {"update", "reset"} /\ run.pc = "ok") =>
        /\ run.status.file_count = Cardinality(FilesOnDisk)
        /\ run.status.is_empty = (run.status.file_count = 0)
        /\ run.status.has_manifest = (SidecarPath \in FilesOnDisk)

\* a successful update whose file count differs from the number of manifest
\* entries and from the number of files written
C29_Witness ==
    /\ UpdateOk
    /\ run.status.file_count # Len(run.manifest.entries)
    /\ run.status.file_count # Len(run.written)
    /\ run.deleted # {}
    /\ run.status.file_count = 3

\* the digest of the modelled contents, as the manifest would spell it
Sha(c) == IF c = Bytes(1) THEN <<"0", "A">> ELSE <<"0", "B">>

\* C30: the Verifying phase queues an entry exactly when its file is
\* missing, or the file exists, the manifest checksum is non-empty and the
\* file's SHA-256 differs from it, letter case ignored, or cannot be
\* computed; an existing file whose entry has no checksum is never queued.
C30_QueuedExactlyWhenStale ==
    (run.op = "update" /\ run.pc \in {"downloading", "ok"}) =>
        \A i \in DOMAIN run.manifest.entries :
            LET e == run.manifest.entries[i]
                file == run.pre[e.path]
            IN e.path # NoPath =>
                 /\ e.path \in Range(run.queue) <=>
                      \/ file = NoFile
                      \/ /\ file # NoFile
                         /\ e.checksum # <<>>
                         /\ \/ file = Unreadable
                            \/ /\ file \in FileBytes
                               /\ to_uppercase(Sha(file))
                                    # to_uppercase(e.checksum)
                 /\ (file # NoFile /\ e.checksum = <<>>) =>
                        e.path \notin Range(run.queue)

\* a verification that queued an unreadable file and kept an unreadable
\* file whose entry has no checksum
C30_Witness ==
    /\ run.op = "update" /\ run.pc \in {"downloading", "ok"}
    /\ \E i, j \in DOMAIN run.manifest.entries :
          LET e == run.manifest.entries[i]
              f == run.manifest.entries[j]
          IN /\ e.path # NoPath /\ f.path # NoPath
             /\ run.pre[e.path] = Unreadable
             /\ e.checksum # <<>>
             /\ e.path \in Range(run.queue)
             /\ run.pre[f.path] = Unreadable
             /\ f.checksum = <<>>
             /\ f.path \notin Range(run.queue)

\* the files under the root when the Cleaning phase of the run began: those
\* the directory held before the call and those the run wrote
FilesAtCleaning ==
    {p \in AllPaths : Exists(run.pre, p)}
        \cup {run.written[k].path : k \in DOMAIN run.written}

\* C32 as stated: the Cleaning phase deletes every file, the sidecar apart,
\* whose path is not an entry path of the manifest, and deletes neither a
\* file whose path is an entry path nor the sidecar.
C32_CleaningDeletesExactlyExtras ==
    UpdateOk =>
        /\ run.deleted =
              (FilesAtCleaning \ {SidecarPath})
                  \ ManifestPaths(run.manifest.entries)
        /\ run.deleted \cap ManifestPaths(run.manifest.entries) = {}
        /\ SidecarPath \notin run.deleted

\* what does hold: the files deleted are those whose path is not an entry
\* path and whose file name is not manifest.json, at any depth; a deleted
\* file is gone and every other file is untouched by the phase
C32_CleaningSparesEveryManifestJson ==
    UpdateOk =>
        /\ run.deleted =
              {p \in FilesAtCleaning :
                  /\ p \notin ManifestPaths(run.manifest.entries)
                  /\ FileName(p) # "manifest.json"}
        /\ \A p \in run.deleted : ~Exists(disk, p)
        /\ \A p \in FilesAtCleaning \ run.deleted : Exists(disk, p)

\* C39: when update_metadata has read a manifest without entries and has
\* returned, it returned success, and its Cleaning phase deleted every
\* file of the mirror that is not named manifest.json: the sidecar, and
\* any manifest.json below the root, are all that is left.
C39_EmptyManifestEmptiesMirror ==
    (run.op = "update" /\ run.pc \in {"ok", "err"}
        /\ run.manifest # NoFile /\ run.manifest.entries = <<>>) =>
        /\ run.pc = "ok"
        /\ run.requested = <<>>
        /\ run.deleted =
              {p \in AllPaths :
                  Exists(run.pre, p) /\ FileName(p) # "manifest.json"}
        /\ \A p \in AllPaths :
              Exists(disk, p) => FileName(p) = "manifest.json"
        /\ disk[SidecarPath] = run.manifest

\* both entry files of an earlier manifest deleted by an update against a
\* manifest without entries
C39_Witness ==
    /\ UpdateOk
    /\ run.manifest.entries = <<>>
    /\ run.deleted = {PathA, PathB}
    /\ run.status.file_count = 1

\* C40: on the early exit without base URL, update_metadata leaves the
\* mirror directory in existence, created if it was absent, and changes no
\* file; reset_metadata has removed the directory with all its files, the
\* sidecar included, and created it again.
C40_EarlyExitFrame ==
    /\ run.op = "update_no_base" =>
          /\ disk = run.pre
          /\ run.dir_after
          /\ ~run.dir_removed
    /\ run.op = "reset_no_base" =>
          /\ \A p \in AllPaths : ~Exists(disk, p)
          /\ run.dir_removed = run.dir_before
          /\ run.dir_after

\* a reset without base URL on a mirror that held entry files and a sidecar
C40_Witness ==
    /\ run.op = "reset_no_base"
    /\ Exists(run.pre, SidecarPath)
    /\ Exists(run.pre, PathA)
    /\ disk = EmptyDir
    /\ run.dir_removed

\* ------------------------------------------------------------------------
\* Pull store: actions
\* ------------------------------------------------------------------------
\* the mirror when no mirror command has been made
MirrorAtRest ==
    /\ served = Doc("v2", <<>>)
    /\ disk = EmptyDir
    /\ run = IdleRun

SyncIdle == sync.pc # "crawling"

db_save_gacha_records ==
    \E uid \in CallUids, rs \in Batches, dbfail \in BOOLEAN :
        LET res == DbSaveGachaRecords(gacha_pulls, uid, rs, dbfail) IN
        /\ gacha_pulls' = res.table
        /\ last' = SaveCall("db_save", last, uid, rs, res.ok)
        /\ UNCHANGED <<accounts, sync, mirrorVars, crawlVars, tokenVars, jobVars, calcVars>>

db_delete_invalid_gacha_records ==
    \E uid \in CallUids, dbfail \in BOOLEAN :
        LET res == DbDeleteInvalidGachaRecords(gacha_pulls, uid, dbfail) IN
        /\ gacha_pulls' = res.table
        /\ last' = PurgeCall("db_delete_invalid", uid, res.ok,
                              gacha_pulls, res.table)
        /\ UNCHANGED <<accounts, sync, mirrorVars, crawlVars, tokenVars, jobVars, calcVars>>

sync_gacha_by_token_begin ==
    /\ SyncIdle
    /\ \E uid \in CallUids, mode \in SyncModes, env \in SyncEnvs :
        LET res == SyncByTokenBegin(gacha_pulls, accounts, uid, mode, env) IN
        /\ gacha_pulls' = res.table
        /\ accounts' = res.accounts
        /\ sync' = res.sync
        /\ last' = IF res.purged
                   THEN PurgeCall("sync_purge", uid, ~env.purge_fails,
                                  gacha_pulls, res.table)
                   ELSE last
    /\ UNCHANGED <<mirrorVars, crawlVars, tokenVars, jobVars, calcVars>>

sync_gacha_by_token_end ==
    /\ sync.op = "by_token" /\ sync.pc = "crawling"
    /\ \E rs \in Batches, dbfail \in BOOLEAN :
        LET res == SyncByTokenEnd(gacha_pulls, sync, rs, dbfail) IN
        /\ gacha_pulls' = res.table
        /\ sync' = res.sync
        /\ last' = IF rs = <<>> THEN last
                   ELSE SaveCall("save_internal", last, sync.uid, rs, res.ok)
    /\ UNCHANGED <<accounts, mirrorVars, crawlVars, tokenVars, jobVars, calcVars>>

sync_gacha_from_log_begin ==
    /\ SyncIdle
    /\ \E uid \in CallUids, mode \in SyncModes, env \in SyncEnvs :
        LET res == SyncFromLogBegin(gacha_pulls, accounts, uid, mode, env) IN
        /\ gacha_pulls' = res.table
        /\ accounts' = res.accounts
        /\ sync' = res.sync
        /\ last' = IF res.purged
                   THEN PurgeCall("sync_purge", uid, ~env.purge_fails,
                                  gacha_pulls, res.table)
                   ELSE last
    /\ UNCHANGED <<mirrorVars, crawlVars, tokenVars, jobVars, calcVars>>

sync_gacha_from_log_end ==
    /\ sync.op = "from_log" /\ sync.pc = "crawling"
    /\ \E rs \in Batches, dbfail \in BOOLEAN :
        LET res == SyncFromLogEnd(gacha_pulls, sync, rs, dbfail) IN
        /\ gacha_pulls' = res.table
        /\ sync' = res.sync
        /\ last' = IF rs = <<>> THEN last
                   ELSE SaveCall("save_internal", last, sync.uid, rs, res.ok)
    /\ UNCHANGED <<accounts, mirrorVars, crawlVars, tokenVars, jobVars, calcVars>>

\* rows of another account, in the store from the start
OtherRows ==
    SetToBag({[uid |-> "u2", seq_id |-> "s1",
               pool_type |-> "E_CharacterGachaPoolType_Special",
               pulled_at |-> 0],
              [uid |-> "u2", seq_id |-> "s1",
               pool_type |-> "E_CharacterGachaPoolType_Weapon",
               pulled_at |-> 1]})

InitDb ==
    /\ MirrorAtRest
    /\ gacha_pulls = OtherRows
    /\ accounts = [u \in Uids |-> Account("o1")]
    /\ sync = IdleSync
    /\ last = NoCall
    /\ CrawlAtRest
    /\ TokensAtRest
    /\ JobAtRest
    /\ CalcAtRest

NextDb ==
    \/ db_save_gacha_records
    \/ db_delete_invalid_gacha_records
    \/ sync_gacha_by_token_begin
    \/ sync_gacha_by_token_end
    \/ sync_gacha_from_log_begin
    \/ sync_gacha_from_log_end

SpecDb == InitDb /\ [][NextDb]_vars

\* ------------------------------------------------------------------------
\* Pull store: properties
\* ------------------------------------------------------------------------
\* the rows of t stored under (uid, seq_id, pool_type) = (uid, k[1], k[2])
RowsAt(t, uid, k) ==
    {row \in BagToSet(t) :
        row.uid = uid /\ row.seq_id = k[1] /\ row.pool_type = k[2]}

CountAt(t, uid, k) == BagCardinality(Restrict(t, RowsAt(t, uid, k)))

ZeroCountAt(t, uid, k) ==
    BagCardinality(Restrict(t, {row \in RowsAt(t, uid, k) : row.pulled_at = 0}))

KeysOf(t) == {<<row.seq_id, row.pool_type>> : row \in BagToSet(t)}

StoredRow(uid, k, ts) ==
    [uid |-> uid, seq_id |-> k[1], pool_type |-> k[2], pulled_at |-> ts]

\* C34: with the saves and purges running one transaction at a time, from
\* a table with at most one row per (uid, seq_id, pool_type), every
\* sequence of batches, batches that name an identity twice included,
\* leaves at most one row per identity.
C34_OneRowPerIdentity ==
    \A uid \in Uids, k \in RecordKeys : CountAt(gacha_pulls, uid, k) <= 1

\* every identity of the caller stored once, after a batch was saved over
\* a batch of the same identities
C34_Witness ==
    /\ last.kind \in SaveKinds /\ last.ok /\ last.repeat
    /\ \A k \in RecordKeys : CountAt(gacha_pulls, "u1", k) = 1

\* C7: when a batch has been saved for a uid directly after a successful
\* save of a batch with the same identities for that uid, the store holds
\* exactly one row for each (uid, seq_id, pool_type) of the batch, and that
\* row carries the values of the second batch.
C7_SameBatchTwice ==
    (last.kind \in SaveKinds /\ last.ok /\ last.repeat) =>
        \A k \in DOMAIN last.want :
            /\ CountAt(gacha_pulls, last.uid, k) = 1
            /\ CopiesIn(StoredRow(last.uid, k, last.want[k]), gacha_pulls) = 1

C7_Witness ==
    /\ last.kind = "save_internal" /\ last.ok /\ last.repeat
    /\ Cardinality(DOMAIN last.want) = 2
    /\ \E k \in DOMAIN last.want : last.want[k] = 0
    /\ \E k \in DOMAIN last.want : last.want[k] = 1

\* C8: a successful save stores every record of the batch under its own
\* (uid, seq_id, pool_type), so two records that share a seq_id and differ in
\* pool_type are two rows, and it leaves every row whose identity is not in
\* the batch as it was, the rows with the same seq_id and another pool_type
\* included.
C8_PoolTypeSeparatesRows ==
    [][ (last'.kind \in SaveKinds /\ last'.ok) =>
          /\ \A k \in DOMAIN last'.want :
                CopiesIn(StoredRow(last'.uid, k, last'.want[k]),
                         gacha_pulls') = 1
          /\ \A row \in BagToSet(gacha_pulls) \cup BagToSet(gacha_pulls') :
                (~(/\ row.uid = last'.uid
                   /\ <<row.seq_id, row.pool_type>> \in DOMAIN last'.want))
                => CopiesIn(row, gacha_pulls') = CopiesIn(row, gacha_pulls)
      ]_vars

C8_Witness ==
    /\ last.kind \in SaveKinds /\ last.ok
    /\ DOMAIN last.want = {<<"s1", "E_CharacterGachaPoolType_Special">>}
    /\ last.want[<<"s1", "E_CharacterGachaPoolType_Special">>] = 1
    /\ CopiesIn(StoredRow(last.uid,
                          <<"s1", "E_CharacterGachaPoolType_Weapon">>, 0),
                gacha_pulls) = 1
    /\ CopiesIn(StoredRow(last.uid,
                          <<"s1", "E_CharacterGachaPoolType_Special">>, 1),
                gacha_pulls) = 1

\* C9: in every step of every command, under each (uid, seq_id, pool_type)
\* no more rows disappear than had pulled_at = 0 before the step: a row whose
\* pulled_at is not 0 is never deleted.
C9_OnlyInvalidRowsDeleted ==
    [][ \A uid \in Uids : \A k \in KeysOf(gacha_pulls) :
            CountAt(gacha_pulls', uid, k) >=
                CountAt(gacha_pulls, uid, k) - ZeroCountAt(gacha_pulls, uid, k)
      ]_vars

C9_Witness ==
    /\ last.kind = "sync_purge" /\ last.ok /\ last.removed > 0
    /\ \E row \in BagToSet(gacha_pulls) :
            row.uid = last.uid /\ row.pulled_at # 0

\* ------------------------------------------------------------------------
\* The record crawl: actions
\* ------------------------------------------------------------------------
fetch_char_records_internal ==
    /\ crawl.pc # "running"
    /\ \E stop \in Sentinels :
        crawl' = CrawlBegin(stop, "E_CharacterGachaPoolType_Special")
    /\ UNCHANGED <<mirrorVars, dbVars, tokenVars, jobVars, calcVars>>

fetch_char_records_loop ==
    /\ crawl.pc = "running"
    /\ \E resp \in PageResponses : crawl' = CrawlStep(crawl, resp)
    /\ UNCHANGED <<mirrorVars, dbVars, tokenVars, jobVars, calcVars>>

InitCrawl ==
    /\ MirrorAtRest
    /\ DbAtRest
    /\ CrawlAtRest
    /\ TokensAtRest
    /\ JobAtRest
    /\ CalcAtRest

NextCrawl ==
    \/ fetch_char_records_internal
    \/ fetch_char_records_loop

SpecCrawl == InitCrawl /\ [][NextCrawl]_vars

\* ------------------------------------------------------------------------
\* The record crawl: properties
\* ------------------------------------------------------------------------
RECURSIVE Flatten(_)
Flatten(ps) == IF ps = <<>> THEN <<>> ELSE Head(ps) \o Flatten(Tail(ps))

\* the items received, in fetch order
Fetched == Flatten(crawl.pages)

\* the positions of the fetched items whose seq_id is the sentinel
MatchAt ==
    {i \in DOMAIN Fetched : crawl.stop # None /\ SeqIdOf(Fetched[i]) = crawl.stop}

\* C10: when an item whose seq_id is the sentinel has been fetched, the
\* crawl has returned exactly the records of the items fetched before the
\* first such item, in fetch order, and the page of that item is the last
\* page it requested.
C10_StopsAtSentinel ==
    (MatchAt # {}) =>
        LET n == CHOOSE i \in MatchAt : \A j \in MatchAt : i <= j IN
        /\ crawl.pc = "ok"
        /\ crawl.all_records =
            [j \in 1..(n - 1) |-> RecordOf(Fetched[j], crawl.pool_type)]
        /\ n > Len(Flatten(SubSeq(crawl.pages, 1, Len(crawl.pages) - 1)))
        /\ Len(crawl.requests) = Len(crawl.pages)

\* the sentinel is the third of four items fetched in two pages
C10_Witness ==
    /\ crawl.why = "sentinel"
    /\ Len(crawl.pages) = 2
    /\ Len(Fetched) = 4
    /\ Len(crawl.all_records) = 2

\* the records of all the items received, in fetch order
AllFetchedRecords ==
    [j \in DOMAIN Fetched |-> RecordOf(Fetched[j], crawl.pool_type)]

\* C11: in a crawl without sentinel, once a page with hasMore = false has
\* arrived the crawl has returned, with the records of every item of every
\* page received up to and including that page, in fetch order; having
\* returned, it issues no further request.
C11_HasMoreFalseEndsCrawl ==
    (crawl.stop = None /\ crawl.pc # "idle" /\ crawl.hasMore = "false") =>
        /\ crawl.pc = "ok"
        /\ crawl.all_records = AllFetchedRecords

\* the second page of two-item pages says hasMore = false
C11_Witness ==
    /\ crawl.stop = None
    /\ crawl.hasMore = "false"
    /\ crawl.why = "no more"
    /\ Len(crawl.pages) = 2
    /\ Len(crawl.all_records) = 2
    /\ Len(crawl.requests) = 2

\* the crawl takes a step whenever it is in its loop
SpecCrawlFair == SpecCrawl /\ WF_vars(fetch_char_records_loop)

\* C12: a crawl whose every response is a page with items and hasMore = true
\* never ends in an error, and every crawl that is in its loop leaves it.
C12_CrawlTerminates ==
    /\ [](crawl.all_more => crawl.pc # "err")
    /\ ((crawl.pc = "running") ~> (crawl.pc # "running"))

\* endless pages, stopped by the cap with success
C12_Witness ==
    /\ crawl.all_more
    /\ crawl.pc = "ok"
    /\ crawl.why = "cap"
    /\ crawl.stop = None

\* C13 as stated: a crawl never holds more records than the cap.
C13_NeverAboveCap == Len(crawl.all_records) <= MaxRecords

\* C13, amended: a crawl asks for a further page only while it holds at most
\* the cap, so what it holds and returns exceeds the cap by at most one
\* page.
C13_AboveCapByAtMostAPage ==
    /\ crawl.pc = "running" => Len(crawl.all_records) <= MaxRecords
    /\ Len(crawl.all_records) <= MaxRecords + MaxPageLen
    /\ crawl.why = "cap" =>
            /\ crawl.pc = "ok"
            /\ Len(crawl.all_records) > MaxRecords
            /\ Len(crawl.all_records)
                    - Len(crawl.pages[Len(crawl.pages)]) <= MaxRecords

\* the cap stops a crawl that holds more records than the cap
C13_Witness ==
    /\ crawl.why = "cap"
    /\ Len(crawl.all_records) = MaxRecords + MaxPageLen

\* the seq_id of the last item of the k-th page received
LastSeqIdOfPage(k) == SeqIdOf(crawl.pages[k][Len(crawl.pages[k])])

\* C31: the first request of a crawl carries no cursor, each later request
\* carries the seq_id of the last record of the page received just before
\* it, and a page whose list is empty or missing ends the crawl with the
\* records accumulated so far and without a further request.
C31_CursorFollowsLastRecord ==
    /\ crawl.requests # <<>> => crawl.requests[1] = None
    /\ \A i \in DOMAIN crawl.requests :
          i > 1 => /\ i - 1 \in DOMAIN crawl.pages
                   /\ crawl.requests[i] = LastSeqIdOfPage(i - 1)
    /\ (crawl.pc = "running" /\ crawl.pages # <<>>) =>
          crawl.next_seq_id = LastSeqIdOfPage(Len(crawl.pages))
    /\ crawl.why = "end of list" =>
          /\ crawl.pc = "ok"
          /\ Len(crawl.requests) = Len(crawl.pages) + 1
          /\ crawl.all_records = AllFetchedRecords

\* a second request whose cursor is the seq_id of the last item of the
\* first page, not of its first item, answered by an empty list
C31_Witness ==
    /\ crawl.why = "end of list"
    /\ crawl.requests = <<None, "s2">>
    /\ SeqIdOf(crawl.pages[1][1]) = "s1"
    /\ Len(crawl.all_records) = 2

\* the last response was a page with items, without a hasMore flag
LastPageHadNoFlag ==
    /\ crawl.pc # "idle"
    /\ crawl.hasMore = "absent"
    /\ crawl.requests # <<>>
    /\ Len(crawl.pages) = Len(crawl.requests)

\* C37: after a page with items and without hasMore the crawl goes on with
\* the cursor moved to that page's last record, unless the page held the
\* sentinel or took the crawl above the cap; a crawl ends only on an empty
\* or missing list, the sentinel, hasMore = false, an error or the cap.
C37_AbsentFlagContinues ==
    /\ (LastPageHadNoFlag /\ crawl.why # "sentinel"
            /\ Len(crawl.all_records) <= MaxRecords) =>
          /\ crawl.pc = "running"
          /\ crawl.next_seq_id = LastSeqIdOfPage(Len(crawl.pages))
    /\ crawl.pc = "ok" =>
          crawl.why \in {"end of list", "sentinel", "no more", "cap"}
    /\ crawl.pc = "err" =>
          crawl.why \in {"transport_error", "api_error"}
    /\ crawl.why = "no more" => crawl.hasMore = "false"

\* a second request made after a first page without hasMore
C37_Witness ==
    /\ Len(crawl.requests) = 2
    /\ Len(crawl.pages) = 1
    /\ crawl.all_more = FALSE
    /\ crawl.requests[2] = LastSeqIdOfPage(1)
    /\ crawl.why = "end of list"
    /\ Len(crawl.all_records) = 2

\* C33 as stated: a crawl whose page request failed returns an error that
\* carries the envelope's msg or the default message, and returns none of
\* the records of its earlier pages.
C33_ErrorCarriesEnvelopeMessage ==
    crawl.pc = "err" =>
        /\ crawl.returned.kind = "err"
        /\ crawl.returned.records = <<>>
        /\ crawl.returned.msg \in {"m1", DefaultMessage}

\* C33, amended: the error carries the text of the transport error when
\* the request or the decoding of its body failed, the envelope's msg when
\* the code is missing or not 0 and msg is a string, and the default
\* message otherwise; the records of the earlier pages are not returned,
\* and a crawl returns records only when no request failed.
C33_FailedCrawlReturnsNoRecords ==
    /\ crawl.pc = "err" =>
          /\ crawl.returned.kind = "err"
          /\ crawl.returned.records = <<>>
          /\ crawl.returned.msg \in {"m1", DefaultMessage, TransportMessage}
          /\ (crawl.returned.msg = TransportMessage)
                = (crawl.why = "transport_error")
    /\ crawl.returned.kind = "ok" =>
          /\ crawl.pc = "ok"
          /\ crawl.returned.records = crawl.all_records
    /\ crawl.pc = "running" => crawl.returned = NotReturned

\* a crawl that held records of an earlier page when a request failed
\* with an envelope without msg
C33_Witness ==
    /\ crawl.pc = "err"
    /\ crawl.why = "api_error"
    /\ crawl.all_records # <<>>
    /\ crawl.returned = CrawlErr(DefaultMessage)

\* ------------------------------------------------------------------------
\* Account commands
\* ------------------------------------------------------------------------
db_upsert_account ==
    \E uid \in Uids, nick \in NickNames,
       user \in OptTokens, oauth \in OptTokens, u8 \in OptTokens :
        /\ tokens' = DbUpsertAccount(tokens, uid, nick, user, oauth, u8)
        /\ UNCHANGED <<mirrorVars, dbVars, crawlVars, jobVars, calcVars>>

db_delete_account ==
    \E uid \in Uids :
        /\ tokens' = DbDeleteAccount(tokens, uid)
        /\ UNCHANGED <<mirrorVars, dbVars, crawlVars, jobVars, calcVars>>

\* the user token is trimmed and not empty; a statement that fails ends the
\* loop with the rows written so far, which is the loop over a shorter list
add_account_by_token ==
    \E user \in Tokens \ {""}, oauth \in Tokens, bs \in BindingLists :
        /\ tokens' = AddAccounts(tokens, bs, user, oauth)
        /\ UNCHANGED <<mirrorVars, dbVars, crawlVars, jobVars, calcVars>>

\* the account statement of sync_gacha_from_log, reached when the logged
\* URL has a u8_token parameter and the profile lookup with it succeeds
sync_gacha_from_log_upsert ==
    \E uid \in Uids, nick \in NickNames, u8_token \in Tokens :
        /\ tokens' = SyncFromLogUpsert(tokens, uid, nick, u8_token)
        /\ UNCHANGED <<mirrorVars, dbVars, crawlVars, jobVars, calcVars>>

\* the account statement of sync_gacha_by_token, reached for an account
\* with an oauth token when the refresh and the profile lookup succeed
sync_gacha_by_token_update ==
    \E uid \in Uids, nick \in NickNames :
        /\ tokens[uid] # NoRow
        /\ tokens[uid].oauth_token # ""
        /\ tokens' = SyncByTokenUpdate(tokens, uid, nick)
        /\ UNCHANGED <<mirrorVars, dbVars, crawlVars, jobVars, calcVars>>

InitAccounts ==
    /\ MirrorAtRest
    /\ DbAtRest
    /\ CrawlAtRest
    /\ TokensAtRest
    /\ JobAtRest
    /\ CalcAtRest

NextAccounts ==
    \/ db_upsert_account
    \/ db_delete_account
    \/ add_account_by_token
    \/ sync_gacha_from_log_upsert
    \/ sync_gacha_by_token_update

SpecAccounts == InitAccounts /\ [][NextAccounts]_vars

TokenColumns == {"user_token", "oauth_token", "u8_token"}

\* the row of uid exists before and after the step, and its column col,
\* not empty before, is empty or NULL after
Erased(uid, col) ==
    /\ tokens[uid] # NoRow
    /\ tokens'[uid] # NoRow
    /\ tokens[uid][col] \notin {"", Null}
    /\ tokens'[uid][col] \in {"", Null}

\* C15 as stated: no step of the account commands on an existing row
\* replaces a token that is not empty by an empty or NULL one.
C15_NoTokenErased ==
    [][\A uid \in Uids, col \in TokenColumns : ~Erased(uid, col)]_vars

\* what does hold: user_token and oauth_token are never erased, and
\* u8_token is erased by no command other than sync_gacha_from_log
C15_OnlyLogSyncErasesU8 ==
    [][/\ \A uid \in Uids : ~Erased(uid, "user_token")
                         /\ ~Erased(uid, "oauth_token")
       /\ (\E uid \in Uids : Erased(uid, "u8_token")) =>
            \E uid \in Uids, nick \in NickNames :
                tokens' = SyncFromLogUpsert(tokens, uid, nick, "")]_vars

\* ------------------------------------------------------------------------
\* sync_gacha_by_token: the call
\* ------------------------------------------------------------------------
\* rows of earlier syncs of the account: two pulls of the Special pool, two
\* weapon pulls of the same time, and a pull whose time is not known
EarlierRow(seq_id, pool_type, pulled_at) ==
    [uid |-> "u1", seq_id |-> seq_id, pool_type |-> pool_type,
     pulled_at |-> pulled_at]

OldSpecial == EarlierRow("s0", CharPoolTypes[1], 1)

NewSpecial == EarlierRow("s1", CharPoolTypes[1], 2)

Weapon1 == EarlierRow("s1", WeaponPoolType, 2)

Weapon2 == EarlierRow("s2", WeaponPoolType, 2)

Invalid == EarlierRow("s9", CharPoolTypes[2], 0)

StoredTables ==
    {SetToBag(S) : S \in {{}, {Invalid}, {NewSpecial, Weapon1},
                          {OldSpecial, NewSpecial, Weapon1},
                          {NewSpecial, Weapon1, Invalid},
                          {OldSpecial, Weapon1, Weapon2}}}

\* the account rows a call can find
StoredAccounts ==
    {NoRow, Row(Null, "t1", "", "t1"), Row(Null, "t1", "t1", "")}

sync_gacha_by_token ==
    /\ job = IdleJob
    /\ \E uid \in CallUids, mode \in SyncModes, pools \in WeaponPoolResults :
         \E env \in JobEnvsOf(mode), out \in CrawlOutcomesOf(pools),
            map \in LastSeqMaps(gacha_pulls, uid) :
            LET j == SyncGachaByToken(gacha_pulls, tokens[uid], uid, mode,
                                      env, "n1", map, pools, out)
            IN /\ job' = j
               /\ gacha_pulls' = j.table
               /\ tokens' = [tokens EXCEPT ![uid] = j.row]
    /\ UNCHANGED <<mirrorVars, accounts, sync, last, crawlVars, calcVars>>

InitSync ==
    /\ MirrorAtRest
    /\ accounts = [u \in Uids |-> NoAccount]
    /\ sync = IdleSync
    /\ last = NoCall
    /\ CrawlAtRest
    /\ JobAtRest
    /\ CalcAtRest
    /\ gacha_pulls \in StoredTables
    /\ tokens \in {[u1 |-> a, u2 |-> NoRow] : a \in StoredAccounts}

NextSync == sync_gacha_by_token

SpecSync == InitSync /\ [][NextSync]_vars

\* ------------------------------------------------------------------------
\* sync_gacha_by_token: properties
\* ------------------------------------------------------------------------
\* the positions of the events of a kind in the call
EventsOf(ev) == {i \in DOMAIN job.events : job.events[i].ev = ev}

Has(ev) == EventsOf(ev) # {}

\* a request or statement of the kind was issued and failed
Failed(ev) == \E i \in EventsOf(ev) : ~job.events[i].ok

Succeeded(ev) == \E i \in EventsOf(ev) : job.events[i].ok

\* the pools crawled, in order
RECURSIVE PoolsCrawled(_)
PoolsCrawled(es) ==
    IF es = <<>> THEN <<>>
    ELSE IF Head(es).ev = "crawl"
    THEN <<Head(es).pool>> \o PoolsCrawled(Tail(es))
    ELSE PoolsCrawled(Tail(es))

\* the number of records the successful crawls returned
RECURSIVE SumCrawled(_)
SumCrawled(es) ==
    IF es = <<>> THEN 0
    ELSE (IF Head(es).ev = "crawl" /\ Head(es).ok THEN Head(es).n ELSE 0)
            + SumCrawled(Tail(es))

\* every pool was crawled: the three character pool types in order, the
\* weapon pool list was asked for, and each pool it named was crawled
EveryPoolCrawled ==
    /\ Has("weapon_pools")
    /\ \E i \in EventsOf("weapon_pools") :
            /\ Len(PoolsCrawled(job.events)) = Len(CharPoolTypes) + job.events[i].n
            /\ \A k \in 1..job.events[i].n :
                    PoolsCrawled(job.events)[Len(CharPoolTypes) + k] \in WeaponPoolIds
    /\ SubSeq(PoolsCrawled(job.events), 1, Len(CharPoolTypes)) = CharPoolTypes

\* every record of every successful crawl has its row in the store
CrawledRowsStored ==
    \A i \in EventsOf("crawl") :
        job.events[i].ok =>
            \A k \in 1..job.events[i].n :
                BagIn([uid |-> job.uid, seq_id |-> CrawledSeqIds[k],
                       pool_type |-> job.events[i].pool_type,
                       pulled_at |-> 3], gacha_pulls)

\* no row of a crawled record is in the store
NoCrawledRowStored == \A row \in BagToSet(gacha_pulls) : row.pulled_at # 3

\* C16: when the refresh of the access token fails the call returns an
\* error, having issued no profile, pool list or crawl request and no
\* statement that writes: the account row and the pull rows are as before.
C16_RefreshFailureIsFatal ==
    Failed("u8") =>
        /\ job.result.kind = "err"
        /\ ~Has("profile") /\ ~Has("weapon_pools") /\ ~Has("crawl")
        /\ ~Has("update_account") /\ ~Has("purge") /\ ~Has("begin")
        /\ gacha_pulls = job.before
        /\ tokens[job.uid] = job.row_before

\* a full sync of an account with an invalid row, stopped by the refresh
C16_Witness ==
    /\ Failed("u8")
    /\ job.mode = "full"
    /\ BagIn(Invalid, gacha_pulls)
    /\ job.result = Err("u8")

\* C17: when the profile lookup fails the call still crawls every pool and
\* saves what they returned (it fails only if the save does), issues no
\* account UPDATE and leaves the account row as it was, and a successful
\* call reports account_updated = false; in every successful call
\* account_updated says that the lookup succeeded and the UPDATE was done.
C17_ProfileFailureTolerated ==
    /\ Failed("profile") =>
            /\ EveryPoolCrawled
            /\ ~Has("update_account")
            /\ tokens[job.uid] = job.row_before
            /\ job.result.kind = "err" => job.result.why = "save"
            /\ job.result.kind = "ok" =>
                    /\ ~job.result.account_updated
                    /\ job.result.count = SumCrawled(job.events)
                    /\ CrawledRowsStored
    /\ job.result.kind = "ok" =>
            (job.result.account_updated <=>
                Succeeded("profile") /\ Succeeded("update_account"))

\* the lookup fails, a crawl returns a record, the call succeeds
C17_Witness ==
    /\ Failed("profile")
    /\ job.result.kind = "ok"
    /\ job.result.count > 0
    /\ ~job.result.account_updated

\* C18: when the crawl of a pool fails the call goes on to every other
\* pool; unless the save itself fails it returns success with the number
\* of records of the crawls that succeeded, and those records are stored.
C18_CrawlFailureSkipsPool ==
    Failed("crawl") =>
        /\ EveryPoolCrawled
        /\ job.result.kind = "err" => job.result.why = "save"
        /\ ~Has("rollback") => job.result.kind = "ok"
        /\ job.result.kind = "ok" =>
                /\ job.result.count = SumCrawled(job.events)
                /\ CrawledRowsStored

\* the first pool fails, a later one returns a record that is stored
C18_Witness ==
    /\ Failed("crawl")
    /\ \E k \in EventsOf("crawl") :
            /\ \A m \in EventsOf("crawl") : k <= m
            /\ ~job.events[k].ok
    /\ job.result.kind = "ok"
    /\ job.result.count > 0
    /\ ~NoCrawledRowStored

\* C19: a call begins at most one transaction, and one exactly when a
\* crawl returned a record; it begins it after the pool list request and
\* every crawl; only a committed transaction changes the pull rows after
\* the crawls, so a transaction that fails leaves no row of the batch.
C19_OneTransactionAfterCrawls ==
    /\ Cardinality(EventsOf("begin")) <= 1
    /\ job.result.kind \in {"ok", "err"} /\ job.result.why \notin
            {"no account", "no oauth token", "u8", "update account"} =>
                (Has("begin") <=> SumCrawled(job.events) > 0)
    /\ \A b \in EventsOf("begin") :
            \A c \in EventsOf("crawl") \cup EventsOf("weapon_pools") : c < b
    /\ Has("begin") => (Has("commit") /\ ~Has("rollback"))
                        \/ (Has("rollback") /\ ~Has("commit"))
    /\ Has("commit") => job.result.kind = "ok" /\ CrawledRowsStored
    /\ job.result.kind # "idle" /\ ~Has("commit") =>
            gacha_pulls = job.at_begin /\ NoCrawledRowStored
    /\ Has("rollback") => job.result = Err("save")

\* two pools returned a record each and the transaction failed
C19_Witness ==
    /\ Has("rollback")
    /\ Len(job.records) >= 2
    /\ gacha_pulls = job.at_begin
    /\ job.result = Err("save")

\* the seq_ids of the newest rows the account has under a pool type, or
\* no sentinel when it has no row of the type
MostRecent(t, uid, pool_type) ==
    LET rows == {r \in BagToSet(t) : r.uid = uid /\ r.pool_type = pool_type}
    IN IF rows = {} THEN {None}
       ELSE {r.seq_id : r \in {x \in rows :
                \A y \in rows : x.pulled_at >= y.pulled_at}}

\* C20 as stated: in incremental mode every crawl is given the seq_id of a
\* newest stored row of its pool type, in full mode no crawl is given a
\* sentinel.
C20_SentinelPerPoolType ==
    \A i \in EventsOf("crawl") :
        IF job.mode = "incremental"
        THEN job.events[i].stop \in
                MostRecent(job.before, job.uid, job.events[i].pool_type)
        ELSE job.events[i].stop = None

\* the steps of a call that can fail
FallibleSteps ==
    {"u8", "profile", "update_account", "select_last", "purge",
     "crawl", "weapon_pools", "rollback"}

\* C21 as stated: a call in which a step other than the profile lookup or
\* a crawl failed returns an error.
C21_OnlyTwoFailuresTolerated ==
    (\/ \E ev \in FallibleSteps \ {"profile", "crawl", "rollback"} : Failed(ev)
     \/ Has("rollback")) =>
        job.result.kind = "err"
\* ------------------------------------------------------------------------
\* build_manifest_url: one call
\* ------------------------------------------------------------------------
BuildManifestUrl ==
    /\ calc.fn = "build_manifest_url"
    /\ ~calc.done
    /\ calc' = [calc EXCEPT !.done = TRUE,
                    !.out = build_manifest_url(calc.base_url, calc.version)]
    /\ UNCHANGED <<mirrorVars, dbVars, crawlVars, tokenVars, jobVars>>

InitUrl ==
    /\ MirrorAtRest
    /\ DbAtRest
    /\ CrawlAtRest
    /\ TokensAtRest
    /\ job = IdleJob
    /\ calc \in [fn : {"build_manifest_url"}, done : {FALSE},
                 base_url : Urls, version : Versions, out : {UrlError}]

NextUrl == BuildManifestUrl

SpecUrl == InitUrl /\ [][NextUrl]_vars

\* the call has returned
UrlBuilt == calc.fn = "build_manifest_url" /\ calc.done

\* the base as the function reads it, and the version it uses
ReadBase == StripManifest(Trim(calc.base_url))
UsedVersion == EffectiveVersion(calc.version)
MarkerAt == Find(ReadBase, "R", 1)

\* what follows the marker in the base, without the version segment the
\* base may already carry there
AfterMarker ==
    LET rest == Suffix(ReadBase, MarkerAt + 1) IN
    IF rest # <<>> /\ rest[1] = "@"
    THEN IF Find(rest, "/", 2) # 0 THEN Suffix(rest, Find(rest, "/", 2))
         ELSE <<>>
    ELSE rest

\* C26 as stated: for a base with the marker and no placeholder the result
\* is the base up to the marker, @v and the version right after it, what
\* followed the marker, and /manifest.json at the end; for a base with the
\* placeholder every placeholder is replaced by the version and no @v is
\* inserted; an empty base is an error.
C26_VersionRightAfterMarker ==
    UrlBuilt =>
        /\ (Trim(calc.base_url) = <<>>) = ~calc.out.ok
        /\ (calc.out.ok /\ Find(ReadBase, "{version}", 1) # 0) =>
              /\ calc.out.url =
                    WithManifest(Replace(ReadBase, "{version}", UsedVersion))
              /\ Find(calc.out.url, "@v", 1) = 0
        /\ (calc.out.ok /\ Find(ReadBase, "{version}", 1) = 0
                /\ MarkerAt # 0) =>
              calc.out.url =
                  WithManifest(Prefix(ReadBase, MarkerAt) \o <<"@v">>
                                \o UsedVersion \o AfterMarker)

\* the marker is followed by a slash, by a version segment, or by nothing
MarkerEndsSegment ==
    \/ MarkerAt = Len(ReadBase)
    \/ ReadBase[MarkerAt + 1] \in {"/", "@"}

\* what does hold: the statement of C26 for the bases in which the marker
\* ends its path segment or is followed by a version segment
C26_HoldsWhenMarkerEndsSegment ==
    (UrlBuilt /\ calc.out.ok /\ MarkerAt # 0 => MarkerEndsSegment)
        => C26_VersionRightAfterMarker

\* the example of the specification: base x/R/ and version 2 give
\* x/R@v2/manifest.json
C26_Example ==
    /\ UrlBuilt
    /\ calc.base_url = <<"x", "/", "R", "/">>
    /\ calc.version = <<"2">>
    /\ calc.out = [ok |-> TRUE,
                   url |-> <<"x", "/", "R", "@v", "2", "/", "manifest.json">>]

\* ------------------------------------------------------------------------
\* Numeric fields: one decode
\* ------------------------------------------------------------------------
DecodeEnvelopeCode ==
    /\ calc.fn = "json_i64"
    /\ ~calc.done
    /\ calc' = [calc EXCEPT !.done = TRUE, !.out = json_i64(calc.value)]
    /\ UNCHANGED <<mirrorVars, dbVars, crawlVars, tokenVars, jobVars>>

DecodeItemField ==
    /\ calc.fn \in {"rarity", "gachaTs"}
    /\ ~calc.done
    /\ calc' = [calc EXCEPT !.done = TRUE, !.out = item_i64(calc.value)]
    /\ UNCHANGED <<mirrorVars, dbVars, crawlVars, tokenVars, jobVars>>

InitJson ==
    /\ MirrorAtRest
    /\ DbAtRest
    /\ CrawlAtRest
    /\ TokensAtRest
    /\ job = IdleJob
    /\ calc \in [fn : {"json_i64", "rarity", "gachaTs"}, done : {FALSE},
                 value : JsonValues, out : {NoValue}]

NextJson == DecodeEnvelopeCode \/ DecodeItemField

SpecJson == InitJson /\ [][NextJson]_vars

Decoded == calc.fn \in {"json_i64", "rarity", "gachaTs"} /\ calc.done

\* the decimal spelling of an integer
Decimal(n) ==
    LET D[k \in 0..U64Max] ==
            IF k < 10 THEN <<Digits[k + 1]>>
            ELSE Append(D[k \div 10], Digits[(k % 10) + 1])
    IN IF n < 0 THEN <<"-">> \o D[-n] ELSE D[n]

\* C27 as stated: an integer is decoded to itself from a number and from
\* its decimal string (for json_i64 also with spaces around it), and a
\* missing key yields no value, by json_i64 and for rarity and gachaTs.
C27_SameIntegerBothForms ==
    Decoded =>
        /\ \A n \in I64Min..I64Max :
              (\/ calc.value = JInt(n)
               \/ calc.value = JStr(Decimal(n))
               \/ /\ calc.fn = "json_i64"
                  /\ calc.value.kind = "str"
                  /\ Trim(calc.value.s) = Decimal(n))
                => calc.out = Some(n)
        /\ calc.value = Missing => calc.out = NoValue

\* C27, amended: as above, except that a missing key yields no value from
\* json_i64 only; a missing rarity or gachaTs is decoded as 0, like a value
\* that is neither an integer nor the decimal string of one.
C27_SameIntegerMissingIsZero ==
    Decoded =>
        /\ \A n \in I64Min..I64Max :
              (\/ calc.value = JInt(n)
               \/ calc.value = JStr(Decimal(n))
               \/ /\ calc.fn = "json_i64"
                  /\ calc.value.kind = "str"
                  /\ Trim(calc.value.s) = Decimal(n))
                => calc.out = Some(n)
        /\ calc.value = Missing =>
              calc.out = IF calc.fn = "json_i64" THEN NoValue ELSE Some(0)
        /\ (calc.fn # "json_i64" /\ calc.value.kind \in {"float", "other"})
              => calc.out = Some(0)

\* json_i64 has decoded a negative integer from a string with spaces
\* around it
C27_Witness ==
    /\ Decoded
    /\ calc.fn = "json_i64"
    /\ calc.value = JStr(<<" ", "-", "5">>)
    /\ calc.out = Some(-5)

\* ------------------------------------------------------------------------
\* The two save functions on the same store and batch
\* ------------------------------------------------------------------------
MaxStoredRows == 2

\* the rows the store can hold for the account the batches are crawled for
CallerRows == {RowOf(uid, r) : uid \in CallUids, r \in ApiRecords}

\* stores holding the rows of the other account and at most MaxStoredRows
\* distinct rows of the caller, one of them possibly twice (the table has
\* no unique constraint)
SaveTables ==
    {OtherRows (+) SetToBag(S) (+) SetToBag(D) :
        S \in {X \in SUBSET CallerRows : Cardinality(X) <= MaxStoredRows},
        D \in {X \in SUBSET {row \in CallerRows : row.pulled_at = 0} :
                    Cardinality(X) <= 1}}

NoSave == [table |-> EmptyBag, ok |-> FALSE]

SaveBoth ==
    /\ calc.fn = "save"
    /\ ~calc.done
    /\ calc' = [calc EXCEPT
                    !.done = TRUE,
                    !.command = DbSaveGachaRecords(calc.table, calc.uid,
                                    calc.records, calc.dbfail),
                    !.internal = SaveGachaRecordsInternal(calc.table,
                                    calc.uid, calc.records, calc.dbfail)]
    /\ UNCHANGED <<mirrorVars, dbVars, crawlVars, tokenVars, jobVars>>

InitSave ==
    /\ MirrorAtRest
    /\ DbAtRest
    /\ CrawlAtRest
    /\ TokensAtRest
    /\ job = IdleJob
    /\ calc \in [fn : {"save"}, done : {FALSE}, table : SaveTables,
                 uid : Uids, records : Batches, dbfail : BOOLEAN,
                 command : {NoSave}, internal : {NoSave}]

NextSave == SaveBoth

SpecSave == InitSave /\ [][NextSave]_vars

SharedTables ==
    {SetToBag(S) (+) OtherRows :
        S \in {{}, {Invalid}, {NewSpecial, Weapon1, Invalid}}}

\* the accounts table: each account is missing or has an oauth token
SharedAccounts ==
    [Uids -> {NoRow, Row(Null, "t1", "t1", "")}]

\* no command has been called yet
NotCalled == job = IdleJob /\ last = NoCall

save_for ==
    /\ NotCalled
    /\ \E uid \in Uids, rs \in Batches, dbfail \in BOOLEAN :
        LET res == DbSaveGachaRecords(gacha_pulls, uid, rs, dbfail) IN
        /\ gacha_pulls' = res.table
        /\ last' = SaveCall("db_save", last, uid, rs, res.ok)
    /\ UNCHANGED <<accounts, sync, mirrorVars, crawlVars, tokenVars, jobVars, calcVars>>

purge_for ==
    /\ NotCalled
    /\ \E uid \in Uids, dbfail \in BOOLEAN :
        LET res == DbDeleteInvalidGachaRecords(gacha_pulls, uid, dbfail) IN
        /\ gacha_pulls' = res.table
        /\ last' = PurgeCall("db_delete_invalid", uid, res.ok,
                              gacha_pulls, res.table)
    /\ UNCHANGED <<accounts, sync, mirrorVars, crawlVars, tokenVars, jobVars, calcVars>>

sync_for ==
    /\ NotCalled
    /\ \E uid \in Uids, mode \in SyncModes, pools \in WeaponPoolResults :
         \E env \in JobEnvsOf(mode), out \in CrawlOutcomesOf(pools),
            map \in LastSeqMaps(gacha_pulls, uid) :
            LET j == SyncGachaByToken(gacha_pulls, tokens[uid], uid, mode,
                                      env, "n1", map, pools, out)
            IN /\ job' = j
               /\ gacha_pulls' = j.table
               /\ tokens' = [tokens EXCEPT ![uid] = j.row]
    /\ UNCHANGED <<mirrorVars, accounts, sync, last, crawlVars, calcVars>>

InitShared ==
    /\ MirrorAtRest
    /\ accounts = [u \in Uids |-> NoAccount]
    /\ sync = IdleSync
    /\ last = NoCall
    /\ CrawlAtRest
    /\ JobAtRest
    /\ CalcAtRest
    /\ gacha_pulls \in SharedTables
    /\ tokens \in SharedAccounts

NextShared == save_for \/ purge_for \/ sync_for

SpecShared == InitShared /\ [][NextShared]_vars

\* the rows of t that belong to another account than uid
RowsOfOthers(t, uid) == Restrict(t, {row \in BagToSet(t) : row.uid # uid})

\* the account a finished call was made for
CalledFor(uid) == job.uid = uid \/ last.uid = uid

\* C38: a call of sync_gacha_by_token, db_save_gacha_records or
\* db_delete_invalid_gacha_records for uid U leaves every pull row of
\* another uid as it was, and sync_gacha_by_token leaves every account
\* row other than U's as it was.
C38_OtherUidsUntouched ==
    [][\A U \in Uids :
          CalledFor(U)' =>
              /\ RowsOfOthers(gacha_pulls', U) = RowsOfOthers(gacha_pulls, U)
              /\ job'.uid = U =>
                    \A u \in Uids \ {U} : tokens'[u] = tokens[u]]_vars

\* a full sync for u1 has purged and saved rows of u1 and updated its
\* account, next to the rows and the account of u2
C38_Witness ==
    /\ job.uid = "u1" /\ job.mode = "full"
    /\ job.result.kind = "ok" /\ job.account_updated
    /\ tokens["u1"] # job.row_before
    /\ tokens["u2"] # NoRow
    /\ RowsOfOthers(gacha_pulls, "u1") = OtherRows
    /\ RowsOfOthers(job.before, "u2") # RowsOfOthers(gacha_pulls, "u2")
    /\ BagCardinality(gacha_pulls) < BagCardinality(job.before) + Len(job.records)

\* ------------------------------------------------------------------------
\* One character pool: a remote history that grows, and the syncs of it
\* ------------------------------------------------------------------------
\* the pool and the account the history belongs to
HistoryPool == CharPoolTypes[1]
HistoryUid == "u1"

\* the k-th pull of the history as the server lists it: its seqId is a
\* string of its own, its gachaTs a number or missing
HistoryItem(k, gachaTs) == [seqId |-> "s" \o ToString(k), gachaTs |-> gachaTs]

NoSyncYet ==
    [mode |-> None, crawl_ok |-> FALSE, stop |-> None,
     before |-> EmptyBag, full |-> EmptyBag]

\* the page the server answers a request with: the items after the cursor,
\* newest first, MaxPageLen at a time, hasMore telling whether more follow
Serve(remote, cursor) ==
    LET at == {i \in DOMAIN remote : remote[i].seqId = cursor}
        start == IF cursor = None \/ at = {} THEN 1
                 ELSE (CHOOSE i \in at : TRUE) + 1
        end == IF start + MaxPageLen - 1 < Len(remote)
               THEN start + MaxPageLen - 1 ELSE Len(remote)
    IN Page(TRUE, SubSeq(remote, start, end),
            IF end < Len(remote) THEN "true" ELSE "false")

\* the crawl run to its end against the server; request number fail_at,
\* if it is reached, fails in transport
RECURSIVE FetchFrom(_, _, _, _)
FetchFrom(c, remote, fail_at, n) ==
    IF c.pc # "running" THEN c
    ELSE FetchFrom(CrawlStep(c, IF n = fail_at THEN TransportError
                                ELSE Serve(remote, c.next_seq_id)),
                   remote, fail_at, n + 1)

\* the records of a crawl with the pulled_at read from their items
WithPulledAt(recs, remote) ==
    [i \in DOMAIN recs |->
        LET item == CHOOSE it \in {remote[k] : k \in DOMAIN remote} :
                        it.seqId = recs[i].seq_id
        IN [seq_id |-> recs[i].seq_id, pool_type |-> recs[i].pool_type,
            pulled_at |-> item_i64(item.gachaTs).v]]

\* what sync_gacha_by_token does for the pool once the account is read:
\* the sentinel in incremental mode, the purge in full mode, the crawl,
\* whose failure is logged, and the save of what it returned
SyncPool(t, remote, mode, map, fail_at) ==
    LET purged == IF mode = "full" THEN DeleteInvalid(t, HistoryUid) ELSE t
        stop == IF mode = "incremental" THEN StopAt(map, HistoryPool)
                ELSE None
        c == FetchFrom(CrawlBegin(stop, HistoryPool), remote, fail_at, 1)
        recs == IF c.returned.kind = "ok"
                THEN WithPulledAt(c.returned.records, remote) ELSE <<>>
        saved == SaveGachaRecordsInternal(purged, HistoryUid, recs, FALSE)
    IN [table |-> saved.table, crawl_ok |-> c.returned.kind = "ok",
        stop |-> stop]

\* a pull is made: the history gets a newer item
remote_grows ==
    /\ Len(calc.remote) < MaxHistory
    /\ \E gachaTs \in {Missing, JInt(Len(calc.remote) + 1)} :
        calc' = [calc EXCEPT
                    !.remote = <<HistoryItem(Len(calc.remote) + 1, gachaTs)>>
                                    \o @,
                    !.sync = NoSyncYet]
    /\ UNCHANGED <<mirrorVars, dbVars, crawlVars, tokenVars, jobVars>>

\* a sync that returns Ok; full is the table a full sync whose crawl
\* succeeds would leave in its place
sync_pool ==
    \E mode \in SyncModes, fail_at \in 0..2,
       map \in LastSeqMaps(gacha_pulls, HistoryUid) :
        LET r == SyncPool(gacha_pulls, calc.remote, mode, map, fail_at)
            f == SyncPool(gacha_pulls, calc.remote, "full", NoSentinels, 0)
        IN /\ gacha_pulls' = r.table
           /\ calc' = [calc EXCEPT !.sync =
                         [mode |-> mode, crawl_ok |-> r.crawl_ok,
                          stop |-> r.stop, before |-> gacha_pulls,
                          full |-> f.table]]
           /\ UNCHANGED <<accounts, sync, last, mirrorVars, crawlVars,
                          tokenVars, jobVars>>

InitHistory ==
    /\ MirrorAtRest
    /\ DbAtRest
    /\ CrawlAtRest
    /\ TokensAtRest
    /\ JobAtRest
    /\ calc = [fn |-> "history", done |-> TRUE, remote |-> <<>>,
               sync |-> NoSyncYet]

NextHistory == remote_grows \/ sync_pool

SpecHistory == InitHistory /\ [][NextHistory]_vars

\* the seq_ids the store holds for the pool
PoolIds(t) ==
    {row.seq_id : row \in {x \in BagToSet(t) :
                            x.uid = HistoryUid /\ x.pool_type = HistoryPool}}

\* C36: after an incremental sync that returned Ok and whose crawl of the
\* pool succeeded, the identities stored for the pool are those a full
\* sync would leave.
C36_IncrementalEqualsFull ==
    (calc.sync.mode = "incremental" /\ calc.sync.crawl_ok) =>
        PoolIds(gacha_pulls) = PoolIds(calc.sync.full)

\* the store holds every item of the history that is older than one it
\* holds
NoGap(t, remote) ==
    \A i, k \in DOMAIN remote :
        (i < k /\ remote[i].seqId \in PoolIds(t)) =>
            remote[k].seqId \in PoolIds(t)

\* the same holds when the store the sync found had no gap
C36_EqualWhenStoreHasNoGap ==
    (/\ calc.sync.mode = "incremental" /\ calc.sync.crawl_ok
     /\ NoGap(calc.sync.before, calc.remote)) =>
        PoolIds(gacha_pulls) = PoolIds(calc.sync.full)

\* an incremental sync has stopped at its sentinel with newer items
\* fetched and every older one already held
C36_CaughtUp ==
    /\ calc.sync.mode = "incremental" /\ calc.sync.crawl_ok
    /\ calc.sync.stop = "s1"
    /\ PoolIds(calc.sync.before) = {"s1"}
    /\ PoolIds(gacha_pulls) = {"s1", "s2", "s3"}

\* ------------------------------------------------------------------------
\* Two calls of update_metadata on one mirror
\* ------------------------------------------------------------------------
\* the manifests the two calls are served: entries with a path and no
\* checksum
PlainManifests ==
    {m \in Manifests :
        \A i \in DOMAIN m.entries :
            m.entries[i].path # NoPath /\ m.entries[i].checksum = <<>>}

Callers == {1, 2}

\* the record of call i: the first call is run, the second is kept next
\* to the manifest it is served
RunOf(i) == IF i = 1 THEN run ELSE calc.run
ServedTo(i) == IF i = 1 THEN served ELSE calc.served

InProgress(r) == r.pc = "downloading"

\* call i moves to n; overlapped records that a call has started while
\* the other was in progress
Moves(i, n, starts) ==
    /\ disk' = n.disk
    /\ run' = IF i = 1 THEN n.run ELSE run
    /\ calc' = [calc EXCEPT
                  !.run = IF i = 2 THEN n.run ELSE @,
                  !.overlapped = @ \/ (starts /\ InProgress(RunOf(3 - i)))]
    /\ UNCHANGED <<served, dbVars, crawlVars, tokenVars, jobVars>>

BothStart ==
    \E i \in Callers :
        /\ RunOf(i) = IdleRun
        /\ \E resp \in ManifestResponses(ServedTo(i)) :
            Moves(i, UpdateBegin(disk, RunOf(i), resp), TRUE)

BothDownload ==
    \E i \in Callers :
        /\ InProgress(RunOf(i))
        /\ RunOf(i).idx < Len(RunOf(i).queue)
        /\ \E resp \in FileResponses :
            Moves(i, UpdateDownloadStep(disk, RunOf(i), resp), FALSE)

BothFinish ==
    \E i \in Callers :
        /\ InProgress(RunOf(i))
        /\ RunOf(i).idx = Len(RunOf(i).queue)
        /\ Moves(i, UpdateFinishStep(disk, RunOf(i)), FALSE)

InitBoth ==
    /\ served \in PlainManifests
    /\ disk = EmptyDir
    /\ run = IdleRun
    /\ DbAtRest
    /\ CrawlAtRest
    /\ TokensAtRest
    /\ JobAtRest
    /\ \E m \in PlainManifests \ {served} :
          calc = [fn |-> "second_update", done |-> TRUE, run |-> IdleRun,
                  served |-> m, overlapped |-> FALSE]

NextBoth == BothStart \/ BothDownload \/ BothFinish

SpecBoth == InitBoth /\ [][NextBoth]_vars

\* both calls have returned success
BothOk == run.pc = "ok" /\ calc.run.pc = "ok"

\* the files of the mirror are the entry paths of the manifest in the
\* sidecar
MirrorIsSidecar ==
    /\ disk[SidecarPath] \in {served, calc.served}
    /\ MirrorFiles(disk) = ManifestPaths(disk[SidecarPath].entries)

\* C35: two calls of update_metadata against different manifests can
\* overlap on one mirror, and when both have returned success the files
\* of the mirror differ from the entry set of the manifest in the sidecar
\* only if the calls have overlapped.
C35_MismatchOnlyAfterOverlap ==
    (BothOk /\ ~MirrorIsSidecar) => calc.overlapped

\* both calls returned success after overlapping: the sidecar names
\* img/b.png, which the other call deleted after it was written
C35_Witness ==
    /\ BothOk /\ calc.overlapped
    /\ ManifestPaths(disk[SidecarPath].entries) = {PathB}
    /\ MirrorFiles(disk) = {}
    /\ \E i \in DOMAIN calc.run.written \cup DOMAIN run.written :
          \/ i \in DOMAIN run.written /\ run.written[i].path = PathB
          \/ i \in DOMAIN calc.run.written
                /\ calc.run.written[i].path = PathB

====
